---- MODULE Spec2Model ----
(***************************************************************************)
(* A model of hindsight: the stack walker (capture_unix.cpp,               *)
(* capture_windows.cpp and the iterator adapter of capture.hpp), the DIA   *)
(* session cache of the Windows resolver and the reader/writer locking of  *)
(* the libdw resolver.                                                     *)
(***************************************************************************)
EXTENDS Integers, Sequences, FiniteSets, TLC

(***************************************************************************)
(* Bounds of the model.                                                    *)
(***************************************************************************)
\* instruction pointers of ordinary frames range over 0..MaxIp (0 = null)
MaxIp == 2
\* the deepest stack a context describes
MaxDepth == 2

\* the resolve calls of one run, over all threads
MaxResolves == 3
\* the inline frames DIA reports at one address
MaxInline == 1

\* sizeof(std::uintptr_t) on AMD64, the only architecture skip_leaf_function supports
PtrSize == 8

VARIABLES
    backend,          \* "unix" (libunwind) or "windows" (RtlVirtualUnwind)
    chain,            \* the frames of the stack the caller's context describes
    ftab,             \* windows: the instruction pointers that have a function-table entry
    stack,            \* the frames the running capture call unwinds
    context,          \* the caller's native_context_type object
    context_copy,     \* the private context of capture_stacktrace / capture_stacktrace_from_context
    cursor,           \* unix: the unw_cursor_t position; windows: number of frames popped + 1
    pc,               \* "idle", "body", "step", "done"
    entry,            \* the entry point of the running call
    skip_arg,         \* the caller's entries_to_skip
    entries_to_skip,  \* the unwinder's counter
    sink,             \* the output range: [bounded, cap]
    emitted,          \* the addresses written through the sink by the running call
    emittedFrom,      \* for each emitted address, the frame it was computed from
    unw_ok,           \* unix: whether unw_getcontext and unw_init_local succeeded
    calls             \* the completed calls, oldest first

capVars == <<backend, chain, ftab, stack, context, context_copy, cursor, pc, entry,
             skip_arg, entries_to_skip, sink, emitted, emittedFrom, unw_ok, calls>>

\* the DIA resolver (resolver_windows.cpp)
VARIABLES
    module_lookup,    \* "module_info": windows::get_module_info_by_address; "module_map": module_map.lookup
    m_sessions,       \* the session map: module path -> session (0 = null com_ptr)
    m_lock,           \* the holder of the std::mutex of util::locked, or NoThread
    dia_pc,           \* per thread: where its resolve call is
    dia_entry,        \* per thread: the stacktrace_entry being resolved
    dia_cap,          \* per thread: the room left in the output range at the call
    module_info,      \* per thread: the module path found for the entry
    session,          \* per thread: the com_ptr session_for_entry returned (0 = null)
    open_failed,      \* per thread: a step of opening the session failed in this call
    raised,           \* per thread: the call ended by an exception
    logical,          \* per thread: the logical entries passed to the callback
    opened,           \* per module path: how many times openSession succeeded
    load_address,     \* the sessions put_loadAddress succeeded on
    handles,          \* per module path: the results of the completed session_for_entry calls
    dia_started       \* the resolve calls made so far

diaVars == <<module_lookup, m_sessions, m_lock, dia_pc, dia_entry, dia_cap, module_info,
             session, open_failed, raised, logical, opened, load_address, handles,
             dia_started>>

\* the libdw resolver (resolver_libdw.cpp)
VARIABLES
    lock_scope,       \* what try_resolve_in_existing_modules does under the shared lock
    is_initialized,   \* whether create_initial_session gave a session
    mapped,           \* the modules mapped into the process
    reported,         \* the modules the Dwfl session knows
    readers,          \* the threads holding the std::shared_mutex shared
    writer,           \* the thread holding it exclusively, or NoThread
    dw_pc,            \* per thread: where its resolve call is
    dw_entry,         \* per thread: the stacktrace_entry being resolved
    dw_retry,         \* per thread: the mappings were reported again in this call
    dw_logical,       \* per thread: the logical entries passed to the callback
    dw_started        \* the resolve calls made so far

dwflVars == <<lock_scope, is_initialized, mapped, reported, readers, writer, dw_pc,
              dw_entry, dw_retry, dw_logical, dw_started>>

\* the module maps (windows/module_map.cpp) and windows::get_module_info_by_address
VARIABLES
    mm_kind,          \* "local", "remote" (module_map.cpp) or "module_info" (module_info.cpp)
    mm_pc,            \* where the lookup is
    mm_entry,         \* the stacktrace_entry looked up
    retry_idx,        \* remote: the loop counter of lookup
    mm_attempts,      \* remote: the attempts started in this lookup
    mm_waits,         \* remote: the delays of wait_before_retry in this lookup, in ms (0 = yield)
    mm_failed,        \* a step of the lookup failed (in its last attempt, for remote)
    mm_result,        \* "pending", "none" (an empty optional), "info" or "raised"
    mm_started        \* the lookups made so far

mmVars == <<mm_kind, mm_pc, mm_entry, retry_idx, mm_attempts, mm_waits, mm_failed,
            mm_result, mm_started>>

\* what a resolve call hands to its sink (resolver_libdw.cpp, resolver_backtrace.cpp,
\* resolver_windows.cpp)
VARIABLES
    rs_range,         \* the output range [first, last) resolve was given
    rs_backend,       \* "libdw", "backtrace" or "dia"
    rs_pc,            \* where the resolve call is
    rs_entry,         \* the stacktrace_entry being resolved
    rs_avail,         \* the backend has what it needs to look the address up
    rs_frames,        \* what the debug information holds for the address, innermost first
    rs_error_at,      \* backtrace: the frames reported before the error callback is called
    rs_errnum,        \* backtrace: the errnum of that error
    rs_idx,           \* the frames of rs_frames gone through
    buffered_entry,   \* backtrace: cb_state::buffered_entry, <<>> for an empty optional
    done,             \* the done flag of the callback state
    entry_issued,     \* the entry_issued flag of the callback state
    exception,        \* backtrace: cb_state::exception, NoException for a null pointer
    rs_thrown,        \* the exception the caller of resolve observes
    rs_out            \* the invocations of the sink in this call, with their results

rsVars == <<rs_range, rs_backend, rs_pc, rs_entry, rs_avail, rs_frames, rs_error_at, rs_errnum,
            rs_idx, buffered_entry, done, entry_issued, exception, rs_thrown, rs_out>>

\* the values a resolver converts (resolver_libdw.cpp, resolver_backtrace.cpp)
VARIABLES
    cv_call,          \* the conversion made last: which value, and what the library gave
    cv_result         \* what it gave

\* the out-of-process example (examples/out_of_process): the host, the
\* watchdog it starts, and the pipe to the watchdog's standard input
VARIABLES
    host,             \* the host process: where it is and what it holds
    watchdog,         \* the watchdog process: where run() is and what it holds
    stdin_pipe        \* the bytes written to the pipe and not yet read

oopVars == <<host, watchdog, stdin_pipe>>

\* windows/module_map.cpp, get_remote_module_handles
VARIABLES
    mh                \* the call of get_remote_module_handles: its vector and its result

\* functions and objects followed on their own: read_from_handle (common.hpp), the
\* lifetime of a symbolizer, the libdw walk and search, get_module_file_name,
\* iconv_transcode
VARIABLES
    rfh,              \* the call of read_from_handle: its span, the stream and its result
    lt,               \* a symbolizer, its debug sessions and the logical entries made from them
    walk,             \* libdw: resolve_in_module for one address of one module
    dfs,              \* libdw: depth_first_search_for_address over one compilation unit
    gmfn,             \* windows: the call of get_module_file_name
    ict               \* unix: the call of iconv_transcode

\* single functions exercised on their own
fnVars == <<rfh, lt, walk, dfs, gmfn, ict>>
notRfh == <<lt, walk, dfs, gmfn, ict>>
notLt == <<rfh, walk, dfs, gmfn, ict>>
notWalk == <<rfh, lt, dfs, gmfn, ict>>
notDfs == <<rfh, lt, walk, gmfn, ict>>
notGmfn == <<rfh, lt, walk, dfs, ict>>
notIct == <<rfh, lt, walk, dfs, gmfn>>

cvVars == <<cv_call, cv_result>>
oldAuxVars == <<cvVars, oopVars, mh>>
auxVars == <<oldAuxVars, fnVars>>

vars == <<capVars, diaVars, dwflVars, mmVars, rsVars, auxVars>>

\* what the actions of one component leave alone
notCapVars == <<diaVars, dwflVars, mmVars, rsVars, auxVars>>
notDiaVars == <<capVars, dwflVars, mmVars, rsVars, auxVars>>
notDwflVars == <<capVars, diaVars, mmVars, rsVars, auxVars>>
notMmVars == <<capVars, diaVars, dwflVars, rsVars, auxVars>>
notRsVars == <<capVars, diaVars, dwflVars, mmVars, auxVars>>
notAuxVars == <<capVars, diaVars, dwflVars, mmVars, rsVars>>

Threads == {"t1", "t2"}
NoThread == "none"

\* a module path that no module has
NoModule == "none"
Paths == {"a.exe", "b.dll"}

\* the state of a DIA resolver nobody has used
DiaFresh ==
    /\ m_sessions = [p \in {} |-> 0]
    /\ m_lock = NoThread
    /\ dia_pc = [t \in Threads |-> "idle"]
    /\ dia_entry = [t \in Threads |-> 0]
    /\ dia_cap = [t \in Threads |-> 1]
    /\ module_info = [t \in Threads |-> NoModule]
    /\ session = [t \in Threads |-> 0]
    /\ open_failed = [t \in Threads |-> FALSE]
    /\ raised = [t \in Threads |-> FALSE]
    /\ logical = [t \in Threads |-> <<>>]
    /\ opened = [p \in Paths |-> 0]
    /\ load_address = {}
    /\ handles = [p \in Paths |-> {}]
    /\ dia_started = 0

\* the state of a libdw resolver nobody has used
DwflFresh ==
    /\ readers = {}
    /\ writer = NoThread
    /\ dw_pc = [t \in Threads |-> "idle"]
    /\ dw_entry = [t \in Threads |-> 0]
    /\ dw_retry = [t \in Threads |-> FALSE]
    /\ dw_logical = [t \in Threads |-> <<>>]
    /\ dw_started = 0

\* no module lookup made yet
ModuleMapParked ==
    /\ mm_kind = "local"
    /\ mm_pc = "idle"
    /\ mm_entry = 0
    /\ retry_idx = 0
    /\ mm_attempts = 0
    /\ mm_waits = <<>>
    /\ mm_failed = FALSE
    /\ mm_result = "pending"
    /\ mm_started = 0

NoException == "none"

\* no value converted yet
ValuesParked ==
    /\ cv_call = [fn |-> "none", known |-> FALSE, value |-> 0]
    /\ cv_result = 0

\* no host process started
OutOfProcessParked ==
    /\ host = [pc |-> "none", handle |-> 0, entries |-> <<>>, bytes |-> <<>>]
    /\ watchdog = [pc |-> "none", need |-> 0, buf |-> <<>>, host_handle |-> 0,
                   entry_count |-> 0, entries |-> <<>>, entry_idx |-> 0,
                   what |-> "none", log |-> "none", exit |-> "running"]
    /\ stdin_pipe = <<>>

\* get_remote_module_handles not called yet
ModuleHandlesParked ==
    mh = [pc |-> "idle", modules |-> <<>>, capacity |-> 0, calls |-> 0, short |-> FALSE,
          result |-> "none", started |-> 0]

\* read_from_handle not called yet
ReadFromHandleParked ==
    rfh = [pc |-> "idle", os |-> "none", size |-> 0, bytes |-> 0, stream |-> 0,
           closed |-> FALSE, reads |-> 0, result |-> FALSE]

\* no symbolizer, no walk, no search and no call of the other functions yet
NotCalled == [pc |-> "none"]

FnParked ==
    /\ ReadFromHandleParked
    /\ lt = NotCalled
    /\ walk = NotCalled
    /\ dfs = NotCalled
    /\ gmfn = NotCalled
    /\ ict = NotCalled

OldAuxParked == ValuesParked /\ OutOfProcessParked /\ ModuleHandlesParked

AuxParked == OldAuxParked /\ FnParked

\* no resolve call made yet
ResolveParked ==
    /\ rs_range = [bounded |-> FALSE, cap |-> 0]
    /\ rs_backend = "libdw"
    /\ rs_pc = "idle"
    /\ rs_entry = 0
    /\ rs_avail = TRUE
    /\ rs_frames = <<>>
    /\ rs_error_at = 0
    /\ rs_errnum = "none"
    /\ rs_idx = 0
    /\ buffered_entry = <<>>
    /\ done = FALSE
    /\ entry_issued = FALSE
    /\ exception = NoException
    /\ rs_thrown = NoException
    /\ rs_out = <<>>

\* the libdw resolver at rest, while another component is exercised
DwflParked ==
    /\ lock_scope = "dwfl_addrmodule"
    /\ is_initialized = TRUE
    /\ mapped = {}
    /\ reported = {}
    /\ DwflFresh

(***************************************************************************)
(* The environment: stacks, unwind tables, stack memory.                   *)
(***************************************************************************)
\* skip counts and output capacities reach one past the deepest stack
MaxSkip == MaxDepth + 1
MaxCap == MaxDepth

\* an instruction pointer inside detail::capture_stacktrace itself
EntryIp == MaxIp + 1
\* what a local-variable slot of a frame holds (never a return address of the chain)
LocalSlotValue == MaxIp + 2

\* A frame as libunwind reports it: the IP register, whether reading it
\* succeeds, and the answer of unw_is_signal_frame (>0 yes, 0 no, <0 error).
\* A frame whose register read fails, or whose ip is null, is never emitted:
\* its other attributes are normalised.
UnixFirstFrames ==
    {[ip |-> i, sig |-> s, regOk |-> TRUE] : i \in 1..MaxIp, s \in {-1, 0, 1}}
        \cup {[ip |-> 0, sig |-> 1, regOk |-> TRUE], [ip |-> 0, sig |-> 0, regOk |-> FALSE]}
\* unw_step returns a positive value only for a frame with a non-null ip
UnixNextFrames ==
    {[ip |-> i, sig |-> s, regOk |-> TRUE] : i \in 1..MaxIp, s \in {-1, 0, 1}}
        \cup {[ip |-> 1, sig |-> 0, regOk |-> FALSE]}

\* A Windows frame: sig = 1 marks the frame of an exception-delivered context
\* (only the first frame of a CONTEXT can be one); the code never reads it.
WindowsFirstFrames ==
    {[ip |-> i, sig |-> s, regOk |-> TRUE] : i \in 1..MaxIp, s \in {0, 1}}
        \cup {[ip |-> 0, sig |-> 1, regOk |-> TRUE]}
WindowsNextFrames == {[ip |-> i, sig |-> 0, regOk |-> TRUE] : i \in 1..MaxIp}

RECURSIVE ChainsFrom(_, _, _)
ChainsFrom(first, next, n) ==
    IF n = 1 THEN {<<f>> : f \in first}
    ELSE LET shorter == ChainsFrom(first, next, n - 1)
         IN shorter \cup {Append(c, f) : c \in {s \in shorter : Len(s) = n - 1}, f \in next}

UnixChains == ChainsFrom(UnixFirstFrames, UnixNextFrames, MaxDepth)
WindowsChains == ChainsFrom(WindowsFirstFrames, WindowsNextFrames, MaxDepth)

\* the frame of detail::capture_stacktrace, on top of the stack when the
\* context is saved inside it
EntryFrame == [ip |-> EntryIp, sig |-> 0, regOk |-> TRUE]

OrdinaryFrame(f) == f.regOk /\ f.ip # 0 /\ f.sig = 0

\* RtlLookupFunctionEntry: no function lives at address 0
HasFunctionEntry(ip) == ip = EntryIp \/ ip \in ftab
\* The function tables a stack can run under: only a leaf function has no
\* entry, and a leaf function has called nothing, so it is the innermost
\* frame and no return address points into it.
FunctionTables(frames) ==
    {t \in {1..MaxIp, (1..MaxIp) \ {frames[1].ip}} :
        \A i \in 2..Len(frames) : frames[i].ip \in t}
\* the number of stack slots a function with unwind info holds below its return address
FrameLocals(ip) == ip % 2

\* The stack memory a chain of frames lays out, lowest address first: per
\* frame its local slots (none for a function without unwind info, which has
\* not moved the stack pointer) and then the return address into the caller;
\* the outermost frame returns to address 0.
RECURSIVE StackSlots(_, _)
StackSlots(frames, i) ==
    IF i > Len(frames) THEN <<>>
    ELSE LET ip == frames[i].ip
             locals == IF HasFunctionEntry(ip) THEN FrameLocals(ip) ELSE 0
             ret == IF i < Len(frames) THEN frames[i + 1].ip ELSE 0
         IN [k \in 1..locals |-> LocalSlotValue] \o <<ret>> \o StackSlots(frames, i + 1)

StackBase == PtrSize
StackMem == StackSlots(stack, 1)
Load(addr) == StackMem[((addr - StackBase) \div PtrSize) + 1]

\* the context RtlCaptureContext / getcontext / an exception record gives for a stack
ContextOf(frames) == [Rip |-> frames[1].ip, Rsp |-> StackBase]

(***************************************************************************)
(* The sink of capture.hpp: an output iterator and a sentinel.             *)
(***************************************************************************)
Sinks == {[bounded |-> FALSE, cap |-> 0]} \cup {[bounded |-> TRUE, cap |-> n] : n \in 0..MaxCap}

\* a range taken to have room whatever first and last are
range_never_empty(s) == FALSE

\* first == last before anything is written
range_empty(s) == s.bounded /\ s.cap = 0

\* a callback that never reports the end of the range
callback_ignores_end(s, written) == FALSE
\* a callback that reports the end one entry after the range is full
callback_done_one_late(s, written) == s.bounded /\ written = s.cap + 1
\* the callback: *state.first++ = entry; return state.first == state.last
callback_done(s, written) == s.bounded /\ written = s.cap

(***************************************************************************)
(* The unwinder.                                                           *)
(***************************************************************************)
EntryPoints == {"current", "context", "mutable"}

\* HINDSIGHT_HAS_NOINLINE builds: the entry point's own frame is skipped
increment_if_has_noinline(n) == n + 1

\* the skip count capture_stacktrace hands to the unwinder
unix_capture_stacktrace_skip(n) == n
windows_capture_stacktrace_skip(n) == increment_if_has_noinline(n)

handed_skip(e, n) ==
    IF e = "current"
    THEN IF backend = "unix" THEN unix_capture_stacktrace_skip(n)
         ELSE windows_capture_stacktrace_skip(n)
    ELSE n

\* a skip counter cleared by its first decrement
DecrementSkipToZero(n) == 0
\* --entries_to_skip
DecrementSkip(n) == n - 1

\* the loop condition without its test for a null instruction pointer
unix_frame_reported_without_null_check(f) == f.regOk
\* unw_get_reg(&cursor, UNW_REG_IP, &instruction_ptr) == 0 && instruction_ptr != 0
unix_frame_reported(f) == f.regOk /\ f.ip # 0

\* if (unw_is_signal_frame(&cursor) <= 0) --instruction_ptr;
unix_reporting_address(ip, sig) == IF sig <= 0 THEN ip - 1 ELSE ip

\* get_instruction_ptr(context) - 1
windows_reporting_address(ip) == ip - 1

\* an entry point that unwinds the caller's context object itself
context_shared(e) == FALSE

\* auto context_copy = context: capture_stacktrace_from_context unwinds a copy (and
\* capture_stacktrace a context of its own), the mutable entry point the caller's
context_copied(e) == e # "mutable"

\* the context object the running call unwinds in place
Working == IF context_copied(entry) THEN context_copy ELSE context

\* the frame the unwinder is at (windows: ghost, for the frame's attributes)
CurrentFrame == stack[cursor]
CurrentIp ==
    IF backend = "unix" THEN (IF CurrentFrame.regOk THEN CurrentFrame.ip ELSE 0)
    ELSE Working.Rip

\* The stack a call unwinds.  capture_stacktrace saves the context inside
\* itself: its own frame is on top, and the caller's frame is at the call
\* site (callIp) rather than where the caller saved its own context.
StackOfCall(e, callIp) ==
    IF e = "current"
    THEN <<EntryFrame, [chain[1] EXCEPT !.ip = callIp]>> \o Tail(chain)
    ELSE chain

CallRecord(out, started) ==
    [entry |-> entry, skip |-> skip_arg, handed |-> handed_skip(entry, skip_arg),
     sink |-> sink, out |-> out, from |-> emittedFrom, started |-> started,
     unw_ok |-> unw_ok, before |-> ContextOf(chain), after |-> context]

\* The facade: capture_stacktrace_iterator_adapter and the three entry
\* points, up to the first iteration of the unwind loop.
capture(e, n, s, callIp, unwOk) ==
    /\ pc = "idle"
    /\ Len(calls) < 2
    \* the first call of a run is the reference the second is compared with
    /\ Len(calls) = 0 => (e = "context" /\ n = 0 /\ ~s.bounded)
    \* capture_stacktrace runs on the caller's own stack
    /\ e = "current" =>
          /\ OrdinaryFrame(chain[1])
          /\ callIp # 0
          \* the caller has called something: it is no leaf function
          /\ backend = "windows" => HasFunctionEntry(chain[1].ip)
          /\ backend = "windows" => FrameLocals(callIp) = FrameLocals(chain[1].ip)
    /\ e # "current" => callIp = chain[1].ip
    /\ backend = "windows" => unwOk
    /\ entry' = e
    /\ skip_arg' = n
    /\ sink' = s
    /\ emitted' = <<>>
    /\ emittedFrom' = <<>>
    /\ unw_ok' = unwOk
    /\ cursor' = 1
    /\ stack' = StackOfCall(e, callIp)
    \* the caller saves its context anew before every call
    /\ context' = ContextOf(chain)
    /\ context_copy' = ContextOf(StackOfCall(e, callIp))
    /\ entries_to_skip' = handed_skip(e, n)
    /\ pc' = IF range_empty(s) \/ ~unwOk THEN "done" ELSE "body"
    /\ UNCHANGED <<backend, chain, ftab, calls>>
    /\ UNCHANGED notCapVars

\* capture_unix.cpp: the body of the do-while loop
unix_loop_body ==
    /\ backend = "unix"
    /\ pc = "body"
    /\ IF unix_frame_reported(CurrentFrame)
       THEN IF entries_to_skip # 0
            THEN /\ entries_to_skip' = DecrementSkip(entries_to_skip)
                 /\ pc' = "step"
                 /\ UNCHANGED <<emitted, emittedFrom>>
            ELSE /\ emitted' = Append(emitted,
                                      unix_reporting_address(CurrentFrame.ip, CurrentFrame.sig))
                 /\ emittedFrom' = Append(emittedFrom, CurrentFrame)
                 /\ pc' = IF callback_done(sink, Len(emitted')) THEN "done" ELSE "step"
                 /\ UNCHANGED entries_to_skip
       ELSE /\ pc' = "step"
            /\ UNCHANGED <<entries_to_skip, emitted, emittedFrom>>
    /\ UNCHANGED <<backend, chain, ftab, stack, context, context_copy, cursor, entry,
                   skip_arg, sink, unw_ok, calls>>
    /\ UNCHANGED notCapVars

\* capture_unix.cpp: while (unw_step(&cursor) > 0)
unix_unw_step ==
    /\ backend = "unix"
    /\ pc = "step"
    /\ IF cursor < Len(stack)
       THEN cursor' = cursor + 1 /\ pc' = "body"
       ELSE cursor' = cursor /\ pc' = "done"
    /\ UNCHANGED <<backend, chain, ftab, stack, context, context_copy, entry, skip_arg,
                   entries_to_skip, sink, emitted, emittedFrom, unw_ok, calls>>
    /\ UNCHANGED notCapVars

\* capture_windows.cpp: the first half of the do-while body
windows_loop_body ==
    /\ backend = "windows"
    /\ pc = "body"
    /\ IF Working.Rip # 0
       THEN IF entries_to_skip = 0
            THEN /\ emitted' = Append(emitted, windows_reporting_address(Working.Rip))
                 /\ emittedFrom' = Append(emittedFrom, CurrentFrame)
                 /\ pc' = IF callback_done(sink, Len(emitted')) THEN "done" ELSE "step"
                 /\ UNCHANGED entries_to_skip
            ELSE /\ entries_to_skip' = DecrementSkip(entries_to_skip)
                 /\ pc' = "step"
                 /\ UNCHANGED <<emitted, emittedFrom>>
       ELSE /\ pc' = "step"
            /\ UNCHANGED <<entries_to_skip, emitted, emittedFrom>>
    /\ UNCHANGED <<backend, chain, ftab, stack, context, context_copy, cursor, entry,
                   skip_arg, sink, unw_ok, calls>>
    /\ UNCHANGED notCapVars

\* RtlVirtualUnwind for a function with unwind info: pop its locals and return
RtlVirtualUnwind(c) ==
    [Rip |-> Load(c.Rsp + PtrSize * FrameLocals(c.Rip)),
     Rsp |-> c.Rsp + PtrSize * (FrameLocals(c.Rip) + 1)]

\* the return address read, the stack pointer left where it was
skip_leaf_without_pop(c) == [Rip |-> Load(c.Rsp), Rsp |-> c.Rsp]

\* skip_leaf_function: context.Rip = *Rsp; context.Rsp += sizeof(std::uintptr_t)
skip_leaf_function(c) == [Rip |-> Load(c.Rsp), Rsp |-> c.Rsp + PtrSize]

\* capture_windows.cpp: the second half of the do-while body and its condition
windows_unwind_step ==
    /\ backend = "windows"
    /\ pc = "step"
    /\ LET c == IF HasFunctionEntry(Working.Rip) THEN RtlVirtualUnwind(Working)
                ELSE skip_leaf_function(Working)
       IN /\ IF context_copied(entry)
             THEN context_copy' = c /\ UNCHANGED context
             ELSE context' = c /\ UNCHANGED context_copy
          /\ cursor' = cursor + 1
          /\ pc' = IF c.Rip # 0 THEN "body" ELSE "done"
    /\ UNCHANGED <<backend, chain, ftab, stack, entry, skip_arg, entries_to_skip, sink,
                   emitted, emittedFrom, unw_ok, calls>>
    /\ UNCHANGED notCapVars

\* the call returns to its caller
capture_return ==
    /\ pc = "done"
    /\ calls' = Append(calls, CallRecord(emitted, ~range_empty(sink)))
    /\ pc' = "idle"
    /\ UNCHANGED <<backend, chain, ftab, stack, context, context_copy, cursor, entry,
                   skip_arg, entries_to_skip, sink, emitted, emittedFrom, unw_ok>>
    /\ UNCHANGED notCapVars

CaptureInit ==
    /\ backend \in {"unix", "windows"}
    /\ chain \in IF backend = "unix" THEN UnixChains ELSE WindowsChains
    /\ ftab \in IF backend = "windows" THEN FunctionTables(chain) ELSE {{}}
    /\ stack = chain
    /\ context = ContextOf(chain)
    /\ context_copy = ContextOf(chain)
    /\ cursor = 1
    /\ pc = "idle"
    /\ entry = "context"
    /\ skip_arg = 0
    /\ entries_to_skip = 0
    /\ sink = [bounded |-> FALSE, cap |-> 0]
    /\ emitted = <<>>
    /\ emittedFrom = <<>>
    /\ unw_ok = TRUE
    /\ calls = <<>>
    /\ module_lookup = "module_info"
    /\ DiaFresh
    /\ DwflParked
    /\ ModuleMapParked
    /\ ResolveParked
    /\ AuxParked

\* a call is made only while no other is running on the thread
CaptureCall ==
    /\ pc = "idle"
    /\ \E e \in EntryPoints, n \in 0..MaxSkip, s \in Sinks, callIp \in 0..MaxIp,
          unwOk \in BOOLEAN :
           capture(e, n, s, callIp, unwOk)

CaptureLoop ==
    \/ unix_loop_body
    \/ unix_unw_step
    \/ windows_loop_body
    \/ windows_unwind_step
    \/ capture_return

CaptureNext == CaptureCall \/ CaptureLoop

\* the stack walker at rest, while a resolver is exercised
CaptureParked ==
    /\ backend = "windows"
    /\ chain = <<[ip |-> 1, sig |-> 0, regOk |-> TRUE]>>
    /\ ftab = 1..MaxIp
    /\ stack = chain
    /\ context = ContextOf(chain)
    /\ context_copy = ContextOf(chain)
    /\ cursor = 1
    /\ pc = "idle"
    /\ entry = "context"
    /\ skip_arg = 0
    /\ entries_to_skip = 0
    /\ sink = [bounded |-> FALSE, cap |-> 0]
    /\ emitted = <<>>
    /\ emittedFrom = <<>>
    /\ unw_ok = TRUE
    /\ calls = <<>>

SpecCapture == CaptureInit /\ [][CaptureNext]_vars

(***************************************************************************)
(* Properties of the stack walker.                                         *)
(***************************************************************************)
\* the first n elements of a sequence removed (everything, when n >= Len)
Drop(seq, n) == SubSeq(seq, n + 1, Len(seq))

\* the unwinder is at a frame whose instruction pointer reads as null
AtNullFrame ==
    /\ pc \in {"body", "step"}
    /\ IF backend = "unix" THEN CurrentFrame.regOk /\ CurrentFrame.ip = 0
       ELSE Working.Rip = 0

\* the second call of a run and the reference call (skip 0, unbounded,
\* from the same saved context) it is compared with
ReferenceCall == calls[1]
SecondCall == calls[2]
Comparable ==
    /\ Len(calls) = 2
    /\ ReferenceCall.unw_ok
    /\ SecondCall.unw_ok
    /\ ~SecondCall.sink.bounded

\* C1: every emitted address is the frame's instruction pointer minus one,
\* except for a signal/exception-delivery frame, whose instruction pointer
\* is emitted verbatim.
C1_SignalFrameVerbatim ==
    \A i \in 1..Len(emitted) :
        emitted[i] = IF emittedFrom[i].sig > 0 THEN emittedFrom[i].ip
                     ELSE emittedFrom[i].ip - 1

\* C2 (as written): at a frame whose instruction pointer is zero the
\* unwinder stops; no further unwind step is attempted from that frame.
C2_StopsAtNullIp == ~(pc = "step" /\ AtNullFrame)

\* C2 (amended): at a frame whose instruction pointer is zero nothing is
\* emitted and the skip counter is not decremented, but one unwind step is
\* still attempted; the call ends there only when that step finds no caller
\* frame.
C2_NullIpNotEmitted ==
    /\ [][(pc = "body" /\ AtNullFrame) =>
             (pc' = "step" /\ emitted' = emitted /\ entries_to_skip' = entries_to_skip)]_vars
    /\ [][(pc = "step" /\ AtNullFrame) => (pc' = "done" <=> cursor = Len(stack))]_vars

\* a walk that started at a null instruction pointer went on and emitted a caller
C2_Witness ==
    /\ pc = "done"
    /\ stack[1].regOk /\ stack[1].ip = 0
    /\ Len(emitted) >= 1

\* C3: every address passed to the sink is non-zero.
C3_EmittedNonZero == \A i \in 1..Len(emitted) : emitted[i] # 0

\* C4: for the same context and an unbounded output, a capture with skip k
\* yields the skip-0 output with its first k entries removed, of length
\* len - k.
C4_SkipDropsPrefix ==
    (Comparable /\ SecondCall.entry \in {"context", "mutable"}) =>
        /\ SecondCall.out = Drop(ReferenceCall.out, SecondCall.skip)
        /\ SecondCall.skip <= Len(ReferenceCall.out) =>
              Len(SecondCall.out) = Len(ReferenceCall.out) - SecondCall.skip

C4_Witness ==
    /\ Comparable
    /\ SecondCall.entry \in {"context", "mutable"}
    /\ SecondCall.skip = 1
    /\ Len(ReferenceCall.out) = 2
    /\ Len(SecondCall.out) = 1

\* C5: capture-from-current hands skip + 1 to the unwinder, so its result
\* has the length of, and from the second entry on equals, the
\* capture-from-context result for a context saved in the calling function.
C5_CurrentSkipsEntryPoint ==
    (Comparable /\ SecondCall.entry = "current") =>
        LET expected == Drop(ReferenceCall.out, SecondCall.skip)
        IN /\ SecondCall.handed = SecondCall.skip + 1
           /\ Len(SecondCall.out) = Len(expected)
           /\ \A i \in 2..Len(expected) : SecondCall.out[i] = expected[i]

\* the number of loop steps a running call has left, at most
StepsLeft ==
    CASE pc = "idle" -> 0
      [] pc = "done" -> 1
      [] pc = "step" -> 2 * (Len(stack) - cursor) + 2
      [] pc = "body" -> 2 * (Len(stack) - cursor) + 3

NullCallContext ==
    /\ pc = "done"
    /\ entry = "context"
    /\ unw_ok
    /\ skip_arg = 0
    /\ ~range_empty(sink)
    /\ Len(chain) >= 2
    /\ chain[1].regOk /\ chain[1].ip = 0 /\ chain[1].sig = 1
    /\ chain[2].regOk

\* C34: capture_from_context on a fault context whose instruction pointer is
\* zero still emits at least one address, and every address it emits is
\* non-zero.
C34_NullCallContextEmitsAddresses ==
    NullCallContext =>
        /\ Len(emitted) >= 1
        /\ \A i \in 1..Len(emitted) : emitted[i] # 0

(***************************************************************************)
(* The DIA resolver: resolve and the session cache.                        *)
(***************************************************************************)
\* the entries handed to resolve: null, addresses inside the two modules,
\* and a non-null address inside no module
DiaEntries == 0..(MaxIp + 1)

\* GetModuleHandleExW(FROM_ADDRESS) and GetModuleFileNameW: the path of the
\* module an address lies in
ModulePathOf(a) ==
    CASE a = 0 -> NoModule
      [] a % 3 = 1 -> "a.exe"
      [] a % 3 = 2 -> "b.dll"
      [] OTHER -> NoModule

\* the next IDiaSession object openSession creates
NewSession == opened["a.exe"] + opened["b.dll"] + 1

\* on_failure: callback({entry, false, {}})
BareEntry == "bare"

\* The logical entries one successful symbol lookup passes to the callback:
\* the inline frames and then the root symbol, until the callback returns done.
LogicalEntries(inlines, cap) ==
    LET all == [i \in 1..inlines |-> "inline"] \o <<"root">>
    IN SubSeq(all, 1, IF cap < Len(all) THEN cap ELSE Len(all))

\* The debug data of the modules: what findSymbolByVAEx and findInlineFramesByVA
\* find at an address through a session whose load address is set.  It does
\* not change between two calls.  What a session without a load address finds
\* at a virtual address is not determined by the module.
SymbolsAt(e) == [found |-> e <= MaxIp, inlines |-> IF e = 1 THEN MaxInline ELSE 0]

\* resolver.hpp: resolve(entry, first, last) calls resolve_impl when first != last
resolve(t, e, cap) ==
    /\ dia_pc[t] = "idle"
    /\ dia_started < MaxResolves
    /\ dia_started' = dia_started + 1
    /\ dia_entry' = [dia_entry EXCEPT ![t] = e]
    /\ dia_cap' = [dia_cap EXCEPT ![t] = cap]
    /\ module_info' = [module_info EXCEPT ![t] = NoModule]
    /\ session' = [session EXCEPT ![t] = 0]
    /\ open_failed' = [open_failed EXCEPT ![t] = FALSE]
    /\ raised' = [raised EXCEPT ![t] = FALSE]
    /\ logical' = [logical EXCEPT ![t] = <<>>]
    /\ dia_pc' = [dia_pc EXCEPT ![t] = "session_for_entry"]
    /\ UNCHANGED <<module_lookup, m_sessions, m_lock, opened, load_address, handles>>
    /\ UNCHANGED notDiaVars

\* session_for_entry, first statement: the module of the entry.
\* windows::get_module_info_by_address throws std::system_error for an
\* address inside no module; module_map.lookup returns an empty optional and
\* session_for_entry returns nullptr.
get_module_info_by_address(t) ==
    /\ dia_pc[t] = "session_for_entry"
    /\ LET path == ModulePathOf(dia_entry[t])
       IN IF path # NoModule
          THEN /\ module_info' = [module_info EXCEPT ![t] = path]
               /\ dia_pc' = [dia_pc EXCEPT ![t] = "with_lock"]
               /\ UNCHANGED <<raised, session>>
          ELSE IF module_lookup = "module_info"
               THEN /\ raised' = [raised EXCEPT ![t] = TRUE]
                    /\ dia_pc' = [dia_pc EXCEPT ![t] = "return"]
                    /\ UNCHANGED <<module_info, session>>
               ELSE /\ session' = [session EXCEPT ![t] = 0]
                    /\ dia_pc' = [dia_pc EXCEPT ![t] = "resolve"]
                    /\ UNCHANGED <<module_info, raised>>
    /\ UNCHANGED <<module_lookup, m_sessions, m_lock, dia_entry, dia_cap, open_failed,
                   logical, opened, load_address, handles, dia_started>>
    /\ UNCHANGED notDiaVars

\* util::locked::with_lock: std::lock_guard{m_lock}
with_lock(t) ==
    /\ dia_pc[t] = "with_lock"
    /\ m_lock = NoThread
    /\ m_lock' = t
    /\ dia_pc' = [dia_pc EXCEPT ![t] = "try_emplace"]
    /\ UNCHANGED <<module_lookup, m_sessions, dia_entry, dia_cap, module_info, session,
                   open_failed, raised, logical, opened, load_address, handles, dia_started>>
    /\ UNCHANGED notDiaVars

\* sessions.try_emplace(module_info.file_path); if (!inserted) return it->second
try_emplace(t) ==
    /\ dia_pc[t] = "try_emplace"
    /\ LET path == module_info[t]
       IN IF path \in DOMAIN m_sessions
          THEN /\ session' = [session EXCEPT ![t] = m_sessions[path]]
               /\ dia_pc' = [dia_pc EXCEPT ![t] = "unlock"]
               /\ UNCHANGED m_sessions
          ELSE /\ m_sessions' = [q \in DOMAIN m_sessions \cup {path} |->
                                    IF q = path THEN 0 ELSE m_sessions[q]]
               /\ dia_pc' = [dia_pc EXCEPT ![t] = "NoRegCoCreate"]
               /\ UNCHANGED session
    /\ UNCHANGED <<module_lookup, m_lock, dia_entry, dia_cap, module_info, open_failed,
                   raised, logical, opened, load_address, handles, dia_started>>
    /\ UNCHANGED notDiaVars

\* a step of opening the session failed: return nullptr
return_nullptr(t) ==
    /\ session' = [session EXCEPT ![t] = 0]
    /\ open_failed' = [open_failed EXCEPT ![t] = TRUE]
    /\ dia_pc' = [dia_pc EXCEPT ![t] = "unlock"]

\* NoRegCoCreate(L"msdia140.dll", CLSID_DiaSource, ...)
NoRegCoCreate(t, ok) ==
    /\ dia_pc[t] = "NoRegCoCreate"
    /\ IF ok
       THEN /\ dia_pc' = [dia_pc EXCEPT ![t] = "loadDataForExe"]
            /\ UNCHANGED <<session, open_failed>>
       ELSE return_nullptr(t)
    /\ UNCHANGED <<module_lookup, m_sessions, m_lock, dia_entry, dia_cap, module_info,
                   raised, logical, opened, load_address, handles, dia_started>>
    /\ UNCHANGED notDiaVars

\* dia_data_source->loadDataForExe(module_info.file_path.c_str(), ...)
loadDataForExe(t, ok) ==
    /\ dia_pc[t] = "loadDataForExe"
    /\ IF ok
       THEN /\ dia_pc' = [dia_pc EXCEPT ![t] = "openSession"]
            /\ UNCHANGED <<session, open_failed>>
       ELSE return_nullptr(t)
    /\ UNCHANGED <<module_lookup, m_sessions, m_lock, dia_entry, dia_cap, module_info,
                   raised, logical, opened, load_address, handles, dia_started>>
    /\ UNCHANGED notDiaVars

\* dia_data_source->openSession(&it->second)
openSession(t, ok) ==
    /\ dia_pc[t] = "openSession"
    /\ IF ok
       THEN /\ m_sessions' = [m_sessions EXCEPT ![module_info[t]] = NewSession]
            /\ opened' = [opened EXCEPT ![module_info[t]] = @ + 1]
            /\ dia_pc' = [dia_pc EXCEPT ![t] = "put_loadAddress"]
            /\ UNCHANGED <<session, open_failed>>
       ELSE /\ return_nullptr(t)
            /\ UNCHANGED <<m_sessions, opened>>
    /\ UNCHANGED <<module_lookup, m_lock, dia_entry, dia_cap, module_info, raised, logical,
                   load_address, handles, dia_started>>
    /\ UNCHANGED notDiaVars

\* it->second->put_loadAddress(module_info.base_offset); return it->second
put_loadAddress(t, ok) ==
    /\ dia_pc[t] = "put_loadAddress"
    /\ IF ok
       THEN /\ load_address' = load_address \cup {m_sessions[module_info[t]]}
            /\ session' = [session EXCEPT ![t] = m_sessions[module_info[t]]]
            /\ dia_pc' = [dia_pc EXCEPT ![t] = "unlock"]
            /\ UNCHANGED open_failed
       ELSE /\ return_nullptr(t)
            /\ UNCHANGED load_address
    /\ UNCHANGED <<module_lookup, m_sessions, m_lock, dia_entry, dia_cap, module_info,
                   raised, logical, opened, handles, dia_started>>
    /\ UNCHANGED notDiaVars

\* the lambda returns: the lock_guard is destroyed and session_for_entry returns
unlock(t) ==
    /\ dia_pc[t] = "unlock"
    /\ m_lock = t
    /\ m_lock' = NoThread
    /\ handles' = [handles EXCEPT ![module_info[t]] = @ \cup {session[t]}]
    /\ dia_pc' = [dia_pc EXCEPT ![t] = "resolve"]
    /\ UNCHANGED <<module_lookup, m_sessions, dia_entry, dia_cap, module_info, session,
                   open_failed, raised, logical, opened, load_address, dia_started>>
    /\ UNCHANGED notDiaVars

\* resolve, after session_for_entry: if (!session) { on_failure(); return; }
\* then findSymbolByVAEx, the inline frames and the root symbol
findSymbolByVAEx(t, found, inlines) ==
    /\ dia_pc[t] = "resolve"
    /\ logical' = [logical EXCEPT ![t] =
                      IF session[t] = 0 \/ ~found THEN <<BareEntry>>
                      ELSE LogicalEntries(inlines, dia_cap[t])]
    /\ dia_pc' = [dia_pc EXCEPT ![t] = "return"]
    /\ UNCHANGED <<module_lookup, m_sessions, m_lock, dia_entry, dia_cap, module_info,
                   session, open_failed, raised, opened, load_address, handles, dia_started>>
    /\ UNCHANGED notDiaVars

\* resolve returns (or the exception leaves it)
resolve_return(t) ==
    /\ dia_pc[t] = "return"
    /\ dia_pc' = [dia_pc EXCEPT ![t] = "idle"]
    /\ UNCHANGED <<module_lookup, m_sessions, m_lock, dia_entry, dia_cap, module_info,
                   session, open_failed, raised, logical, opened, load_address, handles,
                   dia_started>>
    /\ UNCHANGED notDiaVars

DiaInit ==
    /\ CaptureParked
    /\ DwflParked
    /\ ModuleMapParked
    /\ ResolveParked
    /\ AuxParked
    /\ module_lookup \in {"module_info", "module_map"}
    /\ DiaFresh

DiaNext ==
    \E t \in Threads :
       \/ \E e \in DiaEntries, cap \in 1..(MaxInline + 1) : resolve(t, e, cap)
       \/ get_module_info_by_address(t)
       \/ with_lock(t)
       \/ try_emplace(t)
       \/ \E ok \in BOOLEAN : NoRegCoCreate(t, ok)
       \/ \E ok \in BOOLEAN : loadDataForExe(t, ok)
       \/ \E ok \in BOOLEAN : openSession(t, ok)
       \/ \E ok \in BOOLEAN : put_loadAddress(t, ok)
       \/ unlock(t)
       \/ \E found \in BOOLEAN, inlines \in 0..MaxInline :
             /\ session[t] \in load_address =>
                    (found = SymbolsAt(dia_entry[t]).found
                        /\ inlines = SymbolsAt(dia_entry[t]).inlines)
             /\ findSymbolByVAEx(t, found, inlines)
       \/ resolve_return(t)

SpecDia == DiaInit /\ [][DiaNext]_vars

\* C7: if get_or_open fails at any step, the cache holds no entry for the
\* path when the call returns.
C7_FailedOpenLeavesNoEntry ==
    \A t \in Threads :
        (dia_pc[t] = "unlock" /\ open_failed[t]) => module_info[t] \notin DOMAIN m_sessions

\* C8: there is at most one open session per module path: for every
\* interleaving of resolves on the same module the session is opened at
\* most once and all calls receive the same handle.
C8_OneSessionPerPath ==
    \A p \in Paths : opened[p] <= 1 /\ Cardinality(handles[p]) <= 1

\* C10: for an address inside no module (zero included), or whose session
\* cannot be obtained, resolve returns without raising and emits exactly
\* one bare frame.
C10_NoModuleGivesBareFrame ==
    \A t \in Threads :
        (/\ dia_pc[t] = "return"
         /\ ModulePathOf(dia_entry[t]) = NoModule \/ session[t] = 0)
            => (~raised[t] /\ logical[t] = <<BareEntry>>)

\* C24: for the same address and unchanged module mappings, two resolve
\* calls on the same symbolizer with output ranges of the same size emit equal
\* frame sequences, whether or not the first of them had to populate the
\* session cache.
C24_RepeatedResolveGivesEqualFrames ==
    \A t1 \in Threads, t2 \in Threads :
        (/\ dia_pc[t1] = "idle" /\ logical[t1] # <<>> /\ ~raised[t1]
         /\ dia_pc[t2] = "return" /\ ~raised[t2]
         /\ dia_entry[t1] = dia_entry[t2]
         /\ dia_cap[t1] = dia_cap[t2])
            => logical[t1] = logical[t2]

(***************************************************************************)
(* The libdw resolver: the Dwfl session under its std::shared_mutex.       *)
(***************************************************************************)
\* the operations that read the modules of the session
Queries == {"dwfl_addrmodule", "resolve_in_module"}
\* where a thread is after dwfl_report_begin_add and before the end of dwfl_report_end
InReportBracket == {"report_mappings", "dwfl_report_end"}

\* resolver::impl::create: the symbolizer has a session only if the mappings
\* descriptor could be opened (fdopen) and create_initial_session gave a
\* session; otherwise create returns nullptr and the constructor still returns.
create(proc_maps, session_made) == proc_maps /\ session_made

\* a resolve that goes to the session without looking whether there is one
resolve_unguarded(initialized) == "with_shared_lock"

\* resolver::resolve_impl: if (m_impl) m_impl->resolve(cb_state); else
\* cb_state.on_failure()  (resolver_libdw.cpp: if (!is_initialized()) ...)
resolve_or_fail(initialized) == IF initialized THEN "with_shared_lock" ELSE "on_failure"

\* resolve: if (!is_initialized()) { cb_state.on_failure(); return; }
dwfl_resolve(t, e) ==
    /\ dw_pc[t] = "idle"
    /\ dw_started < MaxResolves
    /\ dw_started' = dw_started + 1
    /\ dw_entry' = [dw_entry EXCEPT ![t] = e]
    /\ dw_retry' = [dw_retry EXCEPT ![t] = FALSE]
    /\ dw_logical' = [dw_logical EXCEPT ![t] = <<>>]
    /\ dw_pc' = [dw_pc EXCEPT ![t] = resolve_or_fail(is_initialized)]
    /\ UNCHANGED <<lock_scope, is_initialized, mapped, reported, readers, writer>>
    /\ UNCHANGED notDwflVars

\* try_resolve_in_existing_modules: m_dwfl_session.with_shared_lock(...)
with_shared_lock(t) ==
    /\ dw_pc[t] = "with_shared_lock"
    /\ writer = NoThread
    /\ readers' = readers \cup {t}
    /\ dw_pc' = [dw_pc EXCEPT ![t] = "dwfl_addrmodule"]
    /\ UNCHANGED <<lock_scope, is_initialized, mapped, reported, writer, dw_entry, dw_retry,
                   dw_logical, dw_started>>
    /\ UNCHANGED notDwflVars

\* a resolve that reports the mappings again after every lookup that found no module
rescan_after_every_miss(found, rescanned) ==
    IF found THEN "resolve_in_module" ELSE "with_lock"

\* resolve: if (try_resolve_in_existing_modules(cb_state)) return; the first
\* lookup without a module is followed by with_lock and the report of the
\* mappings, the second one by cb_state.on_failure()
after_lookup(found, rescanned) ==
    IF found THEN "resolve_in_module"
    ELSE IF rescanned THEN "on_failure" ELSE "with_lock"

\* dwfl_addrmodule(session.get(), entry).  resolver_libdw.cpp ends the
\* locked lambda here; the other revision goes on to resolve_in_module
\* inside it and leaves it only when no module was found.
dwfl_addrmodule(t) ==
    /\ dw_pc[t] = "dwfl_addrmodule"
    /\ LET found == ModulePathOf(dw_entry[t]) \in reported
       IN /\ readers' = IF found /\ lock_scope = "resolve_in_module" THEN readers
                        ELSE readers \ {t}
          /\ dw_pc' = [dw_pc EXCEPT ![t] = after_lookup(found, dw_retry[t])]
    /\ UNCHANGED <<lock_scope, is_initialized, mapped, reported, writer, dw_entry, dw_retry,
                   dw_logical, dw_started>>
    /\ UNCHANGED notDwflVars

\* resolve_in_module(*module, cb_state): the traversal of the module's DWARF
resolve_in_module(t) ==
    /\ dw_pc[t] = "resolve_in_module"
    /\ dw_logical' = [dw_logical EXCEPT ![t] = <<"root">>]
    /\ readers' = readers \ {t}
    /\ dw_pc' = [dw_pc EXCEPT ![t] = "return"]
    /\ UNCHANGED <<lock_scope, is_initialized, mapped, reported, writer, dw_entry, dw_retry,
                   dw_started>>
    /\ UNCHANGED notDwflVars

\* m_dwfl_session.with_lock(...): std::lock_guard on the shared mutex
dwfl_with_lock(t) ==
    /\ dw_pc[t] = "with_lock"
    /\ writer = NoThread
    /\ readers = {}
    /\ writer' = t
    /\ dw_pc' = [dw_pc EXCEPT ![t] = "dwfl_report_begin_add"]
    /\ UNCHANGED <<lock_scope, is_initialized, mapped, reported, readers, dw_entry, dw_retry,
                   dw_logical, dw_started>>
    /\ UNCHANGED notDwflVars

dwfl_report_begin_add(t) ==
    /\ dw_pc[t] = "dwfl_report_begin_add"
    /\ dw_pc' = [dw_pc EXCEPT ![t] = "report_mappings"]
    /\ UNCHANGED <<lock_scope, is_initialized, mapped, reported, readers, writer, dw_entry,
                   dw_retry, dw_logical, dw_started>>
    /\ UNCHANGED notDwflVars

\* dwfl_linux_proc_report: the session learns the modules mapped now
report_mappings(t) ==
    /\ dw_pc[t] = "report_mappings"
    /\ reported' = reported \cup mapped
    /\ dw_pc' = [dw_pc EXCEPT ![t] = "dwfl_report_end"]
    /\ UNCHANGED <<lock_scope, is_initialized, mapped, readers, writer, dw_entry, dw_retry,
                   dw_logical, dw_started>>
    /\ UNCHANGED notDwflVars

\* dwfl_report_end, the end of the locked lambda, and the second lookup
dwfl_report_end(t) ==
    /\ dw_pc[t] = "dwfl_report_end"
    /\ writer' = NoThread
    /\ dw_retry' = [dw_retry EXCEPT ![t] = TRUE]
    /\ dw_pc' = [dw_pc EXCEPT ![t] = "with_shared_lock"]
    /\ UNCHANGED <<lock_scope, is_initialized, mapped, reported, readers, dw_entry,
                   dw_logical, dw_started>>
    /\ UNCHANGED notDwflVars

\* callback_state::on_failure: one entry without symbol information
on_failure(t) ==
    /\ dw_pc[t] = "on_failure"
    /\ dw_logical' = [dw_logical EXCEPT ![t] = <<BareEntry>>]
    /\ dw_pc' = [dw_pc EXCEPT ![t] = "return"]
    /\ UNCHANGED <<lock_scope, is_initialized, mapped, reported, readers, writer, dw_entry,
                   dw_retry, dw_started>>
    /\ UNCHANGED notDwflVars

dwfl_return(t) ==
    /\ dw_pc[t] = "return"
    /\ dw_pc' = [dw_pc EXCEPT ![t] = "idle"]
    /\ UNCHANGED <<lock_scope, is_initialized, mapped, reported, readers, writer, dw_entry,
                   dw_retry, dw_logical, dw_started>>
    /\ UNCHANGED notDwflVars

DwflInit ==
    /\ CaptureParked
    /\ ModuleMapParked
    /\ ResolveParked
    /\ AuxParked
    /\ module_lookup = "module_info"
    /\ DiaFresh
    /\ lock_scope \in {"dwfl_addrmodule", "resolve_in_module"}
    /\ \E proc_maps \in BOOLEAN, session_made \in BOOLEAN :
          is_initialized = create(proc_maps, session_made)
    /\ mapped \in SUBSET Paths
    /\ reported \in SUBSET mapped
    /\ DwflFresh

DwflNext ==
    \E t \in Threads :
       \/ \E e \in DiaEntries : dwfl_resolve(t, e)
       \/ with_shared_lock(t)
       \/ dwfl_addrmodule(t)
       \/ resolve_in_module(t)
       \/ dwfl_with_lock(t)
       \/ dwfl_report_begin_add(t)
       \/ report_mappings(t)
       \/ dwfl_report_end(t)
       \/ on_failure(t)
       \/ dwfl_return(t)

SpecDwfl == DwflInit /\ [][DwflNext]_vars

\* C9: while one thread is between begin-add and end-add, no other thread
\* executes any query on the session: the bracket runs under the exclusive
\* lock, and every query (the module lookup and the traversal of the module
\* it returned) runs under the shared lock.
C9_BracketExcludesQueries ==
    /\ \A t \in Threads : dw_pc[t] \in Queries => t \in readers
    /\ \A t \in Threads :
          dw_pc[t] \in InReportBracket =>
              /\ writer = t
              /\ \A u \in Threads \ {t} : dw_pc[u] \notin Queries

\* C25: a symbolizer whose debug session or mappings descriptor could not be
\* opened is still constructed, and every resolve on it emits exactly one
\* bare frame and returns: it never goes to the session.
C25_DegradedInstanceGivesBareFrame ==
    ~is_initialized =>
        \A t \in Threads :
            /\ dw_pc[t] \in {"idle", "on_failure", "return"}
            /\ dw_pc[t] = "return" => dw_logical[t] = <<BareEntry>>
            /\ dw_pc[t] = "on_failure" => dw_logical[t] = <<>>
            /\ Len(dw_logical[t]) <= 1

\* C25: on a degraded symbolizer a second resolve, of an address inside a
\* mapped module, has returned after the bare frame.
C25_Witness ==
    /\ ~is_initialized
    /\ dw_started >= 2
    /\ \E t \in Threads :
          /\ dw_pc[t] = "return"
          /\ ModulePathOf(dw_entry[t]) \in mapped
          /\ dw_logical[t] = <<BareEntry>>

\* C32: each resolve call reports the process mappings again at most once,
\* only after its lookup did not find the address among the modules already
\* registered, and reports them while it holds the lock exclusively: a call
\* heads for the exclusive lock only out of a lookup that found no module and
\* only if it has not reported yet, the session's modules change only in the
\* step of the thread that holds the lock with no reader inside, and a call
\* that has reported stays marked until it has returned.
C32_OneRescanUnderWriterLock ==
    [][\A t \in Threads :
          /\ (dw_pc'[t] = "with_lock" /\ dw_pc[t] # "with_lock") =>
                 /\ dw_pc[t] = "dwfl_addrmodule"
                 /\ ModulePathOf(dw_entry[t]) \notin reported
                 /\ ~dw_retry[t]
          /\ (dw_pc[t] = "report_mappings" /\ dw_pc'[t] # "report_mappings") =>
                 /\ writer = t
                 /\ readers = {}
                 /\ ~dw_retry[t]
          /\ (dw_pc[t] = "dwfl_report_end" /\ dw_pc'[t] # "dwfl_report_end") => dw_retry'[t]
          /\ (dw_retry[t] /\ ~dw_retry'[t]) => dw_pc[t] = "idle"
          /\ reported' # reported =>
                 \E u \in Threads : dw_pc[u] = "report_mappings" /\ writer = u
      ]_vars

\* C32: a call has returned the bare frame after its one report of the
\* mappings, and another call is reporting them.
C32_Witness ==
    \E t \in Threads, u \in Threads :
        /\ dw_pc[t] = "return" /\ dw_retry[t] /\ dw_logical[t] = <<BareEntry>>
        /\ dw_pc[u] = "dwfl_report_end" /\ writer = u

(***************************************************************************)
(* Module lookup: local_module_map, remote_module_map and the older        *)
(* windows::get_module_info_by_address.                                    *)
(***************************************************************************)
\* constexpr auto lookup_retry_count = retry_count_t{10}
lookup_retry_count == 10
\* constexpr auto wait_step = 10ms
wait_step == 10
\* constexpr auto max_wait = 100ms
max_wait == 100

Min(a, b) == IF a < b THEN a ELSE b

\* a back-off without the yield and the 1 ms step
wait_in_steps_only(idx) == Min(wait_step * idx, max_wait)
\* wait_before_retry: the delay in ms before the next attempt (a yield is 0)
wait_before_retry(idx) ==
    CASE idx = 0 -> 0
      [] idx = 1 -> 1
      [] idx = 2 -> wait_step
      [] OTHER -> Min(wait_step * (idx - 2), max_wait)

\* a loop that gives up after its first failure
retries_exhausted_at_once(idx) == idx >= 1
\* for (retry_idx = 0; retry_idx != lookup_retry_count; ++retry_idx)
retries_exhausted(idx) == idx = lookup_retry_count

MapKinds == {"local", "remote", "module_info"}

\* how a failing step ends the lookup: module_map.cpp returns std::nullopt,
\* module_info.cpp throws std::system_error
FailureOf(kind) == IF kind = "module_info" THEN "raised" ELSE "none"

lookup(kind, e) ==
    /\ mm_pc = "idle"
    /\ mm_started < MaxResolves
    /\ mm_started' = mm_started + 1
    /\ mm_kind' = kind
    /\ mm_entry' = e
    /\ retry_idx' = 0
    /\ mm_attempts' = IF kind = "remote" THEN 1 ELSE 0
    /\ mm_waits' = <<>>
    /\ mm_failed' = FALSE
    /\ mm_result' = "pending"
    /\ mm_pc' = CASE kind = "local" -> "get_local_module_handle"
                  [] kind = "remote" -> "get_remote_module_handles"
                  [] OTHER -> "get_module_handle_by_address"
    /\ UNCHANGED notMmVars

\* a step of a local lookup fails: the lookup ends
lookup_fails ==
    /\ mm_failed' = TRUE
    /\ mm_result' = FailureOf(mm_kind)
    /\ mm_pc' = "done"

\* local_module_map::lookup: GetModuleHandleExW gives no handle for an
\* address inside no module
get_local_module_handle(ok) ==
    /\ mm_pc = "get_local_module_handle"
    /\ ok => ModulePathOf(mm_entry) # NoModule
    /\ IF ok THEN mm_pc' = "get_basic_module_info" /\ UNCHANGED <<mm_failed, mm_result>>
       ELSE lookup_fails
    /\ UNCHANGED <<mm_kind, mm_entry, retry_idx, mm_attempts, mm_waits, mm_started>>
    /\ UNCHANGED notMmVars

\* local_module_map::lookup: GetModuleInformation
get_basic_module_info(ok) ==
    /\ mm_pc = "get_basic_module_info"
    /\ IF ok THEN mm_pc' = "get_module_file_name" /\ UNCHANGED <<mm_failed, mm_result>>
       ELSE lookup_fails
    /\ UNCHANGED <<mm_kind, mm_entry, retry_idx, mm_attempts, mm_waits, mm_started>>
    /\ UNCHANGED notMmVars

\* local_module_map::lookup: GetModuleFileNameW, and the module_info returned
get_module_file_name(ok) ==
    /\ mm_pc = "get_module_file_name"
    /\ IF ok THEN mm_result' = "info" /\ mm_pc' = "done" /\ UNCHANGED mm_failed
       ELSE lookup_fails
    /\ UNCHANGED <<mm_kind, mm_entry, retry_idx, mm_attempts, mm_waits, mm_started>>
    /\ UNCHANGED notMmVars

\* module_info.cpp: get_module_handle_by_address throws when GetModuleHandleExW fails
get_module_handle_by_address(ok) ==
    /\ mm_pc = "get_module_handle_by_address"
    /\ ok => ModulePathOf(mm_entry) # NoModule
    /\ IF ok THEN mm_pc' = "get_module_path_by_handle" /\ UNCHANGED <<mm_failed, mm_result>>
       ELSE lookup_fails
    /\ UNCHANGED <<mm_kind, mm_entry, retry_idx, mm_attempts, mm_waits, mm_started>>
    /\ UNCHANGED notMmVars

\* module_info.cpp: get_module_path_by_handle throws when GetModuleFileNameW fails
get_module_path_by_handle(ok) ==
    /\ mm_pc = "get_module_path_by_handle"
    /\ IF ok THEN mm_pc' = "get_module_base_by_handle" /\ UNCHANGED <<mm_failed, mm_result>>
       ELSE lookup_fails
    /\ UNCHANGED <<mm_kind, mm_entry, retry_idx, mm_attempts, mm_waits, mm_started>>
    /\ UNCHANGED notMmVars

\* module_info.cpp: get_module_base_by_handle throws when GetModuleInformation fails
get_module_base_by_handle(ok) ==
    /\ mm_pc = "get_module_base_by_handle"
    /\ IF ok THEN mm_result' = "info" /\ mm_pc' = "done" /\ UNCHANGED mm_failed
       ELSE lookup_fails
    /\ UNCHANGED <<mm_kind, mm_entry, retry_idx, mm_attempts, mm_waits, mm_started>>
    /\ UNCHANGED notMmVars

\* a step of an attempt of the remote lookup fails: wait_before_retry(retry_idx); continue
attempt_fails ==
    /\ mm_failed' = TRUE
    /\ mm_waits' = Append(mm_waits, wait_before_retry(retry_idx))
    /\ retry_idx' = retry_idx + 1
    /\ IF retries_exhausted(retry_idx')
       THEN mm_result' = "none" /\ mm_pc' = "done" /\ UNCHANGED mm_attempts
       ELSE /\ mm_pc' = "get_remote_module_handles"
            /\ mm_attempts' = mm_attempts + 1
            /\ UNCHANGED mm_result

\* remote_module_map::lookup: EnumProcessModules
get_remote_module_handles(ok) ==
    /\ mm_pc = "get_remote_module_handles"
    /\ IF ok THEN /\ mm_pc' = "module_entry"
                  /\ mm_failed' = FALSE
                  /\ UNCHANGED <<retry_idx, mm_attempts, mm_waits, mm_result>>
       ELSE attempt_fails
    /\ UNCHANGED <<mm_kind, mm_entry, mm_started>>
    /\ UNCHANGED notMmVars

\* a lookup that waits and tries again also when no module has the entry
continue_when_absent(outcome) == IF outcome = "found" THEN "file_name" ELSE "continue"

\* remote_module_map::lookup after the search: if (!module_entry) { wait_before_retry;
\* continue; }  if (!module) { break; }  else get_module_file_name
after_module_entry(outcome) ==
    CASE outcome = "error" -> "continue"
      [] outcome = "found" -> "file_name"
      [] OTHER -> "break"

\* remote_module_map::lookup: the search of the module that contains the
\* entry: a failing GetModuleInformation ("error"), the module ("found"), or
\* no module ("absent": break, the lookup returns none)
module_entry(outcome) ==
    /\ mm_pc = "module_entry"
    /\ outcome = "found" => ModulePathOf(mm_entry) # NoModule
    /\ outcome = "absent" => ModulePathOf(mm_entry) = NoModule
    /\ CASE after_module_entry(outcome) = "continue" -> attempt_fails
         [] after_module_entry(outcome) = "file_name" ->
              /\ mm_pc' = "remote_module_file_name"
              /\ UNCHANGED <<retry_idx, mm_attempts, mm_waits, mm_failed, mm_result>>
         [] OTHER ->
              /\ mm_result' = "none"
              /\ mm_pc' = "done"
              /\ UNCHANGED <<retry_idx, mm_attempts, mm_waits, mm_failed>>
    /\ UNCHANGED <<mm_kind, mm_entry, mm_started>>
    /\ UNCHANGED notMmVars

\* remote_module_map::lookup: GetModuleFileNameExW, and the module_info returned
remote_module_file_name(ok) ==
    /\ mm_pc = "remote_module_file_name"
    /\ IF ok THEN /\ mm_result' = "info"
                  /\ mm_pc' = "done"
                  /\ UNCHANGED <<retry_idx, mm_attempts, mm_waits, mm_failed>>
       ELSE attempt_fails
    /\ UNCHANGED <<mm_kind, mm_entry, mm_started>>
    /\ UNCHANGED notMmVars

lookup_return ==
    /\ mm_pc = "done"
    /\ mm_pc' = "idle"
    /\ UNCHANGED <<mm_kind, mm_entry, retry_idx, mm_attempts, mm_waits, mm_failed,
                   mm_result, mm_started>>
    /\ UNCHANGED notMmVars

ModuleMapInit ==
    /\ CaptureParked
    /\ module_lookup = "module_info"
    /\ DiaFresh
    /\ DwflParked
    /\ ModuleMapParked
    /\ ResolveParked
    /\ AuxParked

ModuleMapNext ==
    \/ \E kind \in MapKinds, e \in DiaEntries : lookup(kind, e)
    \/ \E ok \in BOOLEAN : get_local_module_handle(ok)
    \/ \E ok \in BOOLEAN : get_basic_module_info(ok)
    \/ \E ok \in BOOLEAN : get_module_file_name(ok)
    \/ \E ok \in BOOLEAN : get_module_handle_by_address(ok)
    \/ \E ok \in BOOLEAN : get_module_path_by_handle(ok)
    \/ \E ok \in BOOLEAN : get_module_base_by_handle(ok)
    \/ \E ok \in BOOLEAN : get_remote_module_handles(ok)
    \/ \E outcome \in {"error", "found", "absent"} : module_entry(outcome)
    \/ \E ok \in BOOLEAN : remote_module_file_name(ok)
    \/ lookup_return

SpecModuleMap == ModuleMapInit /\ [][ModuleMapNext]_vars

\* C11: every failing step of a module lookup makes the lookup return
\* none; a lookup never raises.
C11_LookupNeverRaises ==
    /\ mm_result # "raised"
    /\ (mm_pc = "done" /\ mm_failed) => mm_result = "none"

\* C12: a remote lookup whose attempts keep failing gives up and returns
\* none only after at least ten attempts have been made.
C12_TenAttemptsBeforeGivingUp ==
    (mm_kind = "remote" /\ mm_pc = "done" /\ mm_failed /\ mm_result = "none")
        => mm_attempts >= 10

C12_Witness ==
    /\ mm_kind = "remote"
    /\ mm_pc = "done"
    /\ mm_failed
    /\ mm_result = "none"
    /\ Len(mm_waits) = 10

\* C13 (as written): the delays before successive retries of one remote
\* lookup are increasing, every delay longer than the one before.
C13_DelaysStrictlyIncrease ==
    \A i \in 1..(Len(mm_waits) - 1) : mm_waits[i] < mm_waits[i + 1]

\* C13 (amended): the delays never decrease - a yield, 1 ms, 10 ms, then
\* 10 ms again and 10 ms more with every further retry - and no delay
\* exceeds 100 ms.
C13_DelaysNeverDecrease ==
    /\ \A i \in 1..(Len(mm_waits) - 1) : mm_waits[i] <= mm_waits[i + 1]
    /\ \A i \in 1..Len(mm_waits) : mm_waits[i] <= 100
    /\ Len(mm_waits) >= 1 => mm_waits[1] = 0
    /\ Len(mm_waits) >= 2 => mm_waits[2] = 1
    /\ Len(mm_waits) >= 3 => mm_waits[3] = 10
    /\ \A i \in 4..Len(mm_waits) : mm_waits[i] = 10 * (i - 3)

C13_Witness ==
    /\ mm_kind = "remote"
    /\ Len(mm_waits) >= 5
    /\ mm_waits[3] = mm_waits[4]
    /\ mm_waits[5] > mm_waits[4]

\* C29: when the enumeration of the remote modules succeeded and no enumerated
\* module has the address, the lookup returns none from that attempt at once:
\* no back-off wait is made and no further attempt.
C29_AbsentModuleEndsLookup ==
    [][module_entry("absent") =>
          /\ mm_pc' = "done"
          /\ mm_result' = "none"
          /\ ~mm_failed'
          /\ mm_waits' = mm_waits
          /\ mm_attempts' = mm_attempts
          /\ retry_idx' = retry_idx]_vars

\* a remote lookup whose first attempt failed and whose second found no module
\* for the address has returned none after the one wait of the first attempt
C29_Witness ==
    /\ mm_kind = "remote"
    /\ mm_pc = "done"
    /\ ~mm_failed
    /\ mm_result = "none"
    /\ mm_attempts = 2
    /\ Len(mm_waits) = 1

(***************************************************************************)
(* What resolve hands to its sink: the libdw resolver walks the DIE stack  *)
(* of the address, the libbacktrace resolver buffers the entry that        *)
(* backtrace_pcinfo reported last, the DIA resolver goes through the       *)
(* inline frames and then the root symbol.                                 *)
(***************************************************************************)
\* the longest DIE stack / inline chain of an address
MaxChain == 3

\* what a sink does with an entry: ask for more, return done, or raise
Exceptions == {"E1", "E2"}
bad_alloc == "bad_alloc"
SinkResults == {"more", "done"} \cup Exceptions
Backends == {"libdw", "backtrace", "dia"}
ResolveEntries == 1..MaxIp

\* a DIE of the stack / a frame of the chain: fn = it is a function that has the
\* address (libdw), or Item gave the symbol (DIA); inline = it is an inlined instance
Dies == [fn : BOOLEAN, inline : BOOLEAN]
ChainsOver(S) == UNION {[1..n -> S] : n \in 0..MaxChain}

\* libdw: the stack depth_first_search_for_address returns, top first; empty when
\* no function has the address.  The top is a function having the address, and an
\* inlined instance lies within a concrete function that has the address too.
DieStacks ==
    {s \in ChainsOver(Dies) :
        /\ s # <<>> => s[1].fn
        /\ \A i \in 1..Len(s) : s[i].inline => s[i].fn
        /\ \A i \in 1..Len(s) : s[i].inline =>
              \E j \in (i + 1)..Len(s) : s[j].fn /\ ~s[j].inline}

\* libbacktrace: backtrace_pcinfo reports the inlined instances and then the function;
\* an error is reported while the debug information is read, before any frame
PcinfoChains ==
    {[i \in 1..n |-> [fn |-> TRUE, inline |-> i < n]] : n \in 0..MaxChain}

\* DIA: the enumeration findInlineFramesByVA gives; fn = Item succeeds on the element
InlineEnumerations ==
    {s \in ChainsOver(Dies) : Len(s) < MaxChain /\ \A i \in 1..Len(s) : s[i].inline}

ChainsOf(b) ==
    CASE b = "libdw" -> DieStacks
      [] b = "backtrace" -> PcinfoChains
      [] OTHER -> InlineEnumerations

\* the entry's physical address taken from the symbol instead of from the query
logical_entry_at_symbol(physical, is_inline, depth) ==
    [physical |-> physical - depth, inlined |-> is_inline, depth |-> depth]

\* logical_stacktrace_entry{physical, is_inline, symbol}; depth numbers the symbols
\* of the chain from the innermost one, 0 is no symbol
logical_stacktrace_entry(physical, is_inline, depth) ==
    [physical |-> physical, inlined |-> is_inline, depth |-> depth]

\* the value the callback returned taken for "go on" whatever it was
callback_result_ignored(r) == FALSE

\* done = callback(...): the callback returned true
callback_returned_done(r) == r = "done"

\* the callback of resolver::resolve: *first++ = std::move(logical); return
\* first == last; r is what it returns, or what the output iterator raises
SinkGives(r) ==
    \/ r \in Exceptions
    \/ r = IF callback_done(rs_range, Len(rs_out) + 1) THEN "done" ELSE "more"

\* the callback invoked with an entry, and what it did
Invocation(l, r) == [logical |-> l, result |-> r]

\* resolver::resolve: resolve_impl is entered unless first == last
resolve_impl(s, b, e, avail, frames, err, errnum) ==
    /\ rs_pc = "idle"
    /\ rs_range' = s
    /\ rs_backend' = b
    /\ rs_entry' = e
    /\ rs_avail' = avail
    /\ rs_frames' = frames
    /\ rs_error_at' = err
    /\ rs_errnum' = errnum
    /\ rs_idx' = 0
    /\ buffered_entry' = <<>>
    /\ done' = FALSE
    /\ entry_issued' = FALSE
    /\ exception' = NoException
    /\ rs_thrown' = NoException
    /\ rs_out' = <<>>
    /\ rs_pc' = IF range_empty(s) THEN "returned" ELSE "lookup"
    /\ UNCHANGED notRsVars

\* resolve_impl has returned or raised: the callback state and the other locals
\* of the call are gone
resolve_impl_returned ==
    /\ rs_pc = "returned"
    /\ rs_range' = [bounded |-> FALSE, cap |-> 0]
    /\ rs_backend' = "libdw"
    /\ rs_pc' = "idle"
    /\ rs_entry' = 0
    /\ rs_avail' = TRUE
    /\ rs_frames' = <<>>
    /\ rs_error_at' = 0
    /\ rs_errnum' = "none"
    /\ rs_idx' = 0
    /\ buffered_entry' = <<>>
    /\ done' = FALSE
    /\ entry_issued' = FALSE
    /\ exception' = NoException
    /\ rs_thrown' = NoException
    /\ rs_out' = <<>>
    /\ UNCHANGED notRsVars

\* the call is going through the frames
InChain == rs_pc \in {"lookup", "loop"}

\* libdw callback_state::submit
submit(l, r) ==
    IF ~done
    THEN /\ rs_out' = Append(rs_out, Invocation(l, r))
         /\ IF r \in Exceptions
            THEN rs_thrown' = r /\ UNCHANGED <<done, entry_issued>>
            ELSE /\ done' = callback_returned_done(r)
                 /\ entry_issued' = TRUE
                 /\ UNCHANGED rs_thrown
    ELSE UNCHANGED <<rs_out, done, entry_issued, rs_thrown>>

\* libdw callback_state::on_failure
cb_state_on_failure(r) ==
    IF ~entry_issued
    THEN submit(logical_stacktrace_entry(rs_entry, FALSE, 0), r)
    ELSE UNCHANGED <<rs_out, done, entry_issued, rs_thrown>>

\* libdw: the resolver has no session, or no module has the address, also after
\* the mappings were reported again
module_not_found(r) ==
    /\ rs_backend = "libdw"
    /\ rs_pc = "lookup"
    /\ ~rs_avail
    /\ cb_state_on_failure(r)
    /\ rs_pc' = "returned"
    /\ UNCHANGED <<rs_range, rs_backend, rs_entry, rs_avail, rs_frames, rs_error_at, rs_errnum,
                   rs_idx, buffered_entry, exception>>
    /\ UNCHANGED notRsVars

\* libdw: no compilation unit or no function DIE has the address
resolve_in_symbol_table(found, r) ==
    /\ rs_backend = "libdw"
    /\ rs_pc = "lookup"
    /\ rs_avail
    /\ rs_frames = <<>>
    /\ IF found
       THEN submit(logical_stacktrace_entry(rs_entry, FALSE, 1), r)
       ELSE cb_state_on_failure(r)
    /\ rs_pc' = "returned"
    /\ UNCHANGED <<rs_range, rs_backend, rs_entry, rs_avail, rs_frames, rs_error_at, rs_errnum,
                   rs_idx, buffered_entry, exception>>
    /\ UNCHANGED notRsVars

\* libdw: one turn of the loop of resolve_from_dfs_die_stack
resolve_from_dfs_die_stack(r) ==
    /\ rs_backend = "libdw"
    /\ InChain
    /\ rs_avail
    /\ rs_idx < Len(rs_frames)
    /\ LET die == rs_frames[rs_idx + 1]
           empty == rs_idx + 1 = Len(rs_frames)
       IN  IF die.fn
           THEN /\ submit(logical_stacktrace_entry(rs_entry, die.inline, rs_idx + 1), r)
                /\ IF rs_thrown' # NoException \/ done' \/ ~die.inline \/ empty
                   THEN rs_pc' = "returned"
                   ELSE rs_pc' = "loop"
           ELSE /\ UNCHANGED <<rs_out, done, entry_issued, rs_thrown>>
                /\ rs_pc' = IF empty THEN "returned" ELSE "loop"
    /\ rs_idx' = rs_idx + 1
    /\ UNCHANGED <<rs_range, rs_backend, rs_entry, rs_avail, rs_frames, rs_error_at, rs_errnum,
                   buffered_entry, exception>>
    /\ UNCHANGED notRsVars

\* the callback invoked directly, its exception leaving resolve
callback(l, r) ==
    /\ rs_out' = Append(rs_out, Invocation(l, r))
    /\ rs_thrown' = IF r \in Exceptions THEN r ELSE rs_thrown

\* DIA: session_for_entry gave no session, or no symbol has the address
session_or_symbol_missing(r) ==
    /\ rs_backend = "dia"
    /\ rs_pc = "lookup"
    /\ ~rs_avail
    /\ callback(logical_stacktrace_entry(rs_entry, FALSE, 0), r)
    /\ rs_pc' = "returned"
    /\ UNCHANGED <<rs_range, rs_backend, rs_entry, rs_avail, rs_frames, rs_error_at, rs_errnum,
                   rs_idx, buffered_entry, done, entry_issued, exception>>
    /\ UNCHANGED notRsVars

\* DIA: findInlineFramesByVA and get_Count
findInlineFramesByVA(ok) ==
    /\ rs_backend = "dia"
    /\ rs_pc = "lookup"
    /\ rs_avail
    /\ rs_pc' = IF ok /\ rs_frames # <<>> THEN "loop" ELSE "root"
    /\ UNCHANGED <<rs_range, rs_backend, rs_entry, rs_avail, rs_frames, rs_error_at, rs_errnum,
                   rs_idx, buffered_entry, done, entry_issued, exception, rs_thrown,
                   rs_out>>
    /\ UNCHANGED notRsVars

\* DIA: one turn of the loop over the inline symbols
inline_symbols_Item(r) ==
    /\ rs_backend = "dia"
    /\ rs_pc = "loop"
    /\ rs_idx < Len(rs_frames)
    /\ LET last == rs_idx + 1 = Len(rs_frames) IN
       IF rs_frames[rs_idx + 1].fn
       THEN /\ callback(logical_stacktrace_entry(rs_entry, TRUE, rs_idx + 1), r)
            /\ done' = callback_returned_done(r)
            /\ rs_pc' = IF r \in Exceptions \/ callback_returned_done(r) THEN "returned"
                        ELSE IF last THEN "root" ELSE "loop"
       ELSE /\ UNCHANGED <<rs_out, rs_thrown, done>>
            /\ rs_pc' = IF last THEN "root" ELSE "loop"
    /\ rs_idx' = rs_idx + 1
    /\ UNCHANGED <<rs_range, rs_backend, rs_entry, rs_avail, rs_frames, rs_error_at, rs_errnum,
                   buffered_entry, entry_issued, exception>>
    /\ UNCHANGED notRsVars

\* DIA: the root symbol is passed to the callback
root_symbol(r) ==
    /\ rs_backend = "dia"
    /\ rs_pc = "root"
    /\ callback(logical_stacktrace_entry(rs_entry, FALSE, Len(rs_frames) + 1), r)
    /\ rs_pc' = "returned"
    /\ UNCHANGED <<rs_range, rs_backend, rs_entry, rs_avail, rs_frames, rs_error_at, rs_errnum,
                   rs_idx, buffered_entry, done, entry_issued, exception>>
    /\ UNCHANGED notRsVars

\* libbacktrace: get_backtrace_state gave no state
get_backtrace_state(r) ==
    /\ rs_backend = "backtrace"
    /\ rs_pc = "lookup"
    /\ ~rs_avail
    /\ callback(logical_stacktrace_entry(rs_entry, FALSE, 0), r)
    /\ rs_pc' = "returned"
    /\ UNCHANGED <<rs_range, rs_backend, rs_entry, rs_avail, rs_frames, rs_error_at, rs_errnum,
                   rs_idx, buffered_entry, done, entry_issued, exception>>
    /\ UNCHANGED notRsVars

\* the buffered entry handed on as it was buffered
left_unmarked(l, is_inline) == l

\* if (is_inline) buffered_entry->m_is_inline = true
marked_inline(l, is_inline) == [l EXCEPT !.inlined = @ \/ is_inline]

\* flush_buffered_entry without buffered_entry.reset()
flush_without_reset(is_inline, r) ==
    IF buffered_entry # <<>> /\ ~done
    THEN [out |-> Append(rs_out, Invocation(marked_inline(buffered_entry[1], is_inline), r)),
          done |-> callback_returned_done(r), issued |-> TRUE,
          buffered |-> buffered_entry,
          raised |-> IF r \in Exceptions THEN r ELSE NoException]
    ELSE [out |-> rs_out, done |-> done, issued |-> entry_issued,
          buffered |-> buffered_entry, raised |-> NoException]

\* libbacktrace cb_state::flush_buffered_entry: the fields after it, and what the
\* callback raised in it
flush_buffered_entry(is_inline, r) ==
    IF buffered_entry # <<>> /\ ~done
    THEN LET l == marked_inline(buffered_entry[1], is_inline) IN
         IF r \in Exceptions
         THEN [out |-> Append(rs_out, Invocation(l, r)), done |-> done,
               issued |-> entry_issued, buffered |-> buffered_entry, raised |-> r]
         ELSE [out |-> Append(rs_out, Invocation(l, r)), done |-> callback_returned_done(r),
               issued |-> TRUE, buffered |-> <<>>, raised |-> NoException]
    ELSE [out |-> rs_out, done |-> done, issued |-> entry_issued,
          buffered |-> buffered_entry, raised |-> NoException]

\* libbacktrace: the callback backtrace_pcinfo calls for a frame
pcinfo_callback(r) ==
    /\ rs_backend = "backtrace"
    /\ InChain
    /\ rs_avail
    /\ rs_idx < Len(rs_frames)
    /\ rs_idx # rs_error_at
    /\ LET f == flush_buffered_entry(TRUE, r) IN
       /\ rs_out' = f.out
       /\ done' = f.done
       /\ entry_issued' = f.issued
       /\ IF f.raised # NoException
          THEN /\ exception' = f.raised
               /\ buffered_entry' = f.buffered
               /\ rs_pc' = "pcinfo_returned"
               /\ rs_idx' = rs_idx
          ELSE /\ exception' = exception
               /\ buffered_entry' =
                     IF f.done THEN f.buffered
                     ELSE <<logical_stacktrace_entry(rs_entry, FALSE, rs_idx + 1)>>
               /\ rs_pc' = "loop"
               /\ rs_idx' = rs_idx + 1
    /\ UNCHANGED <<rs_range, rs_backend, rs_entry, rs_avail, rs_frames, rs_error_at, rs_errnum,
                   rs_thrown>>
    /\ UNCHANGED notRsVars

\* libbacktrace: the error callback backtrace_pcinfo calls; after it backtrace_pcinfo
\* returns, or goes on with what it could read
error_callback(r, goes_on) ==
    /\ rs_backend = "backtrace"
    /\ InChain
    /\ rs_avail
    /\ rs_idx = rs_error_at
    /\ LET f == flush_buffered_entry(TRUE, r) IN
       /\ rs_out' = f.out
       /\ done' = f.done
       /\ entry_issued' = f.issued
       /\ buffered_entry' = f.buffered
       /\ exception' = IF f.raised # NoException THEN f.raised
                       ELSE IF rs_errnum = "ENOMEM" THEN bad_alloc
                       ELSE exception
    /\ rs_error_at' = Len(rs_frames) + 2
    /\ rs_pc' = IF goes_on THEN "loop" ELSE "pcinfo_returned"
    /\ UNCHANGED <<rs_range, rs_backend, rs_entry, rs_avail, rs_frames, rs_errnum, rs_idx,
                   rs_thrown>>
    /\ UNCHANGED notRsVars

\* libbacktrace: backtrace_pcinfo has reported every frame
backtrace_pcinfo ==
    /\ rs_backend = "backtrace"
    /\ InChain
    /\ rs_avail
    /\ rs_idx = Len(rs_frames)
    /\ rs_idx # rs_error_at
    /\ rs_pc' = "pcinfo_returned"
    /\ UNCHANGED <<rs_range, rs_backend, rs_entry, rs_avail, rs_frames, rs_error_at, rs_errnum,
                   rs_idx, buffered_entry, done, entry_issued, exception, rs_thrown,
                   rs_out>>
    /\ UNCHANGED notRsVars

\* std::rethrow_exception raising bad_alloc whatever was stored
rethrow_as_bad_alloc(ex) == bad_alloc

\* std::rethrow_exception(state.exception): what the caller observes
rethrow_exception(ex) == ex

\* the bare frame handed on whatever was issued before
fallback_always(issued) == TRUE

\* if (!state.entry_issued) { on_failure(); }
no_entry_issued(issued) == ~issued

\* libbacktrace: resolve_impl after backtrace_pcinfo
after_pcinfo(r) ==
    /\ rs_backend = "backtrace"
    /\ rs_pc = "pcinfo_returned"
    /\ IF exception # NoException
       THEN /\ rs_thrown' = rethrow_exception(exception)
            /\ UNCHANGED <<rs_out, done, entry_issued, buffered_entry>>
       ELSE LET f == flush_buffered_entry(FALSE, r) IN
            /\ done' = f.done
            /\ entry_issued' = f.issued
            /\ buffered_entry' = f.buffered
            /\ IF f.raised # NoException
               THEN rs_out' = f.out /\ rs_thrown' = f.raised
               ELSE IF no_entry_issued(f.issued)
               THEN callback(logical_stacktrace_entry(rs_entry, FALSE, 0), r)
               ELSE rs_out' = f.out /\ UNCHANGED rs_thrown
    /\ rs_pc' = "returned"
    /\ UNCHANGED <<rs_range, rs_backend, rs_entry, rs_avail, rs_frames, rs_error_at, rs_errnum,
                   rs_idx, exception>>
    /\ UNCHANGED notRsVars

ResolveInit ==
    /\ CaptureParked
    /\ module_lookup = "module_info"
    /\ DiaFresh
    /\ DwflParked
    /\ ModuleMapParked
    /\ ResolveParked
    /\ AuxParked

ResolveNext ==
    \/ \E b \in Backends, e \in ResolveEntries, avail \in BOOLEAN :
         \E frames \in ChainsOf(b) :
           \E err \in {0, Len(frames) + 1}, errnum \in {"ENOMEM", "EINVAL"} :
              /\ b # "backtrace" => err = Len(frames) + 1 /\ errnum = "EINVAL"
              /\ err = Len(frames) + 1 => errnum = "EINVAL"
              /\ ~avail => frames = <<>> /\ err = 1
              /\ \E s \in Sinks : resolve_impl(s, b, e, avail, frames, err, errnum)
    \/ \E r \in SinkResults : SinkGives(r) /\ module_not_found(r)
    \/ \E found \in BOOLEAN, r \in SinkResults :
         SinkGives(r) /\ resolve_in_symbol_table(found, r)
    \/ \E r \in SinkResults : SinkGives(r) /\ resolve_from_dfs_die_stack(r)
    \/ \E r \in SinkResults : SinkGives(r) /\ session_or_symbol_missing(r)
    \/ \E ok \in BOOLEAN : findInlineFramesByVA(ok)
    \/ \E r \in SinkResults : SinkGives(r) /\ inline_symbols_Item(r)
    \/ \E r \in SinkResults : SinkGives(r) /\ root_symbol(r)
    \/ \E r \in SinkResults : SinkGives(r) /\ get_backtrace_state(r)
    \/ \E r \in SinkResults : SinkGives(r) /\ pcinfo_callback(r)
    \/ \E r \in SinkResults, goes_on \in BOOLEAN :
         SinkGives(r) /\ error_callback(r, goes_on)
    \/ backtrace_pcinfo
    \/ \E r \in SinkResults : SinkGives(r) /\ after_pcinfo(r)
    \/ resolve_impl_returned

SpecResolve == ResolveInit /\ [][ResolveNext]_vars

(***************************************************************************)
(* Properties of what resolve hands to its sink.                           *)
(***************************************************************************)
\* resolve had room to write to, the sink asked for more every time, and resolve
\* returned normally
Uncancelled ==
    /\ ~range_empty(rs_range)
    /\ rs_thrown = NoException
    /\ \A i \in 1..Len(rs_out) : rs_out[i].result = "more"

\* libdw, libbacktrace: the debug information has a function for the address
InsideFunction ==
    /\ rs_backend \in {"libdw", "backtrace"}
    /\ rs_avail
    /\ rs_frames # <<>>

\* innermost first, the last frame the only one with inlined = false
InnermostFirstLastPhysical ==
    /\ rs_out # <<>>
    /\ \A i \in 1..Len(rs_out) : rs_out[i].logical.inlined = (i < Len(rs_out))
    /\ \A i, j \in 1..Len(rs_out) :
          i < j => rs_out[i].logical.depth < rs_out[j].logical.depth

C15_PhysicalIsTheQueriedAddress ==
    \A i \in 1..Len(rs_out) : rs_out[i].logical.physical = rs_entry

\* a resolve that gave two frames of the chain of its address
C15_Witness ==
    /\ rs_pc = "returned"
    /\ Len(rs_out) >= 2
    /\ rs_out[2].logical.depth >= 2

\* C16: once the sink has returned done during a resolve call, the sink is not
\* invoked again in that call.
C16_NoInvocationAfterDone ==
    \A i \in 1..Len(rs_out) : rs_out[i].result = "done" => i = Len(rs_out)

\* the sink returned done on an inlined frame with the next frame still to come,
\* and resolve returned
C16_Witness ==
    /\ rs_pc = "returned"
    /\ rs_avail
    /\ Len(rs_frames) >= 2
    /\ rs_frames[1].fn /\ rs_frames[1].inline /\ rs_frames[2].fn
    /\ rs_out # <<>>
    /\ rs_out[1].logical.depth = 1
    /\ rs_out[1].result = "done"

\* the sink raised in its last invocation
SinkRaised == rs_out # <<>> /\ rs_out[Len(rs_out)].result \in Exceptions

\* C18: if the sink raises during a resolve call, the call is aborted (it has left
\* the frames, and only has to raise to its caller), the sink is not invoked again,
\* and the caller observes that same exception, unchanged.
C18_SinkExceptionReachesCaller ==
    /\ \A i \in 1..Len(rs_out) : rs_out[i].result \in Exceptions => i = Len(rs_out)
    /\ SinkRaised => rs_pc \in {"pcinfo_returned", "returned"}
    /\ (SinkRaised /\ rs_pc = "returned") => rs_thrown = rs_out[Len(rs_out)].result

\* libbacktrace: the sink raised on a frame flushed inside backtrace_pcinfo, with
\* frames still to report, and resolve_impl has raised to its caller
C18_Witness ==
    /\ rs_backend = "backtrace"
    /\ rs_pc = "returned"
    /\ SinkRaised
    /\ rs_idx < Len(rs_frames)
    /\ rs_thrown = "E2"

(***************************************************************************)
(* Further properties of the stack walker.                                 *)
(***************************************************************************)
\* the second call of a run wrote into a range of at least one entry, from the
\* context the reference call walked
BoundedSecondCall ==
    /\ Len(calls) = 2
    /\ ReferenceCall.unw_ok
    /\ SecondCall.unw_ok
    /\ SecondCall.entry \in {"context", "mutable"}
    /\ SecondCall.sink.bounded
    /\ SecondCall.sink.cap >= 1

\* C17: into an output range of capacity n >= 1, from a stack deeper than n,
\* capture writes exactly n addresses (the first n of the walk); it never writes
\* past the end of the range, the sink not being invoked again after it
\* returned done.
C17_FullRangeStopsCapture ==
    /\ sink.bounded => Len(emitted) <= sink.cap
    /\ BoundedSecondCall =>
          LET whole == Drop(ReferenceCall.out, SecondCall.skip)
              n == SecondCall.sink.cap
          IN  Len(whole) > n => SecondCall.out = SubSeq(whole, 1, n)

\* a range of one entry filled from a stack two frames deep
C17_Witness ==
    /\ BoundedSecondCall
    /\ SecondCall.sink.cap = 1
    /\ SecondCall.skip = 0
    /\ Len(ReferenceCall.out) = 2
    /\ Len(SecondCall.out) = 1

\* C19: capture_from_context leaves the caller-supplied context unchanged: every
\* register update of the unwind is applied to a private copy; only the
\* mutable-context entry point may modify the caller's context.
C19_ContextLeftUnchanged ==
    /\ (pc # "idle" /\ entry # "mutable") => context = ContextOf(chain)
    /\ \A i \in 1..Len(calls) :
          calls[i].entry # "mutable" => calls[i].after = calls[i].before

\* a capture_from_context call that has unwound a frame: its copy has moved on
C19_Witness ==
    /\ backend = "windows"
    /\ entry = "context"
    /\ pc = "done"
    /\ cursor > 1
    /\ context_copy # context
    /\ Len(emitted) >= 1

\* the unwinder is about to step from a frame whose function has no unwind-table
\* entry
AtLeafStep ==
    /\ backend = "windows"
    /\ pc = "step"
    /\ ~HasFunctionEntry(Working.Rip)

\* C20: when no unwind-table entry exists for the current instruction pointer, the
\* unwinder takes the value R held in the top stack slot as the caller's
\* instruction pointer and advances the stack pointer by exactly one pointer
\* width, so that the next emitted address is R - 1.
C20_LeafFrameFallback ==
    /\ [][AtLeafStep =>
            /\ Working'.Rip = Load(Working.Rsp)
            /\ Working'.Rsp = Working.Rsp + PtrSize
            /\ Working'.Rip # 0 => pc' = "body"]_vars
    /\ [][(backend = "windows" /\ pc = "body" /\ emitted' # emitted) =>
            emitted' = Append(emitted, Working.Rip - 1)]_vars

\* a walk that started in a leaf function and emitted its caller from the top slot
C20_Witness ==
    /\ backend = "windows"
    /\ stack[1].ip # 0
    /\ ~HasFunctionEntry(stack[1].ip)
    /\ Len(emitted) = 2
    /\ emitted[2] = StackMem[1] - 1
    /\ context_copy.Rsp = StackBase + PtrSize

(***************************************************************************)
(* The facade: a run of the library that captures, or that resolves.       *)
(***************************************************************************)
FacadeNext ==
    \/ rs_pc = "idle" /\ CaptureNext
    \/ CaptureParked /\ ResolveNext

SpecFacade == CaptureInit /\ [][FacadeNext]_vars

\* an output range with first == last
NoRoom(s) == s.bounded /\ s.cap = 0

\* C21: when the output range is empty (first == last), capture and resolve write
\* nothing, do not start the unwinder or the symbolizer, and return at once with
\* the iterator where it was.
C21_EmptyRangeWritesNothing ==
    /\ NoRoom(sink) =>
          /\ emitted = <<>>
          /\ pc \in {"idle", "done"}
          /\ cursor = 1
          /\ context_copy = ContextOf(stack)
    /\ NoRoom(rs_range) =>
          /\ rs_out = <<>>
          /\ rs_pc = "returned"
          /\ rs_idx = 0
          /\ rs_thrown = NoException

\* a capture of a stack with frames into an empty range has returned, or a resolve
\* of an address with debug information into an empty range has
C21_Witness ==
    \/ /\ NoRoom(sink)
       /\ Len(calls) = 2
       /\ Len(ReferenceCall.out) >= 1
       /\ SecondCall.out = <<>>
    \/ /\ NoRoom(rs_range)
       /\ rs_pc = "returned"
       /\ rs_avail
       /\ rs_frames # <<>>

\* the bare fallback frame is the only frame of the call that gives it
BareFrameIsAlone ==
    \A i \in 1..Len(rs_out) : rs_out[i].logical.depth = 0 => Len(rs_out) = 1

PcinfoNext ==
    \/ \E e \in ResolveEntries, avail \in BOOLEAN, frames \in PcinfoChains :
         \E err \in 0..(Len(frames) + 1), errnum \in {"ENOMEM", "EINVAL"} :
            /\ err = Len(frames) + 1 => errnum = "EINVAL"
            /\ ~avail => frames = <<>> /\ err = 1
            /\ \E s \in Sinks : resolve_impl(s, "backtrace", e, avail, frames, err, errnum)
    \/ \E r \in SinkResults : SinkGives(r) /\ get_backtrace_state(r)
    \/ \E r \in SinkResults : SinkGives(r) /\ pcinfo_callback(r)
    \/ \E r \in SinkResults, goes_on \in BOOLEAN :
         /\ goes_on => rs_idx = 0
         /\ SinkGives(r)
         /\ error_callback(r, goes_on)
    \/ backtrace_pcinfo
    \/ \E r \in SinkResults : SinkGives(r) /\ after_pcinfo(r)
    \/ resolve_impl_returned

SpecPcinfo == ResolveInit /\ [][PcinfoNext]_vars

\* the invocations of the sink with a frame backtrace_pcinfo reported
PcinfoDelivered == SelectSeq(rs_out, LAMBDA inv : inv.logical.depth > 0)

\* the sink returned done or raised in one of its invocations
SinkEnded == \E i \in 1..Len(rs_out) : rs_out[i].result # "more"

C22_SkipBeyondDepthGivesNothing ==
    (/\ Len(calls) = 2
     /\ ReferenceCall.unw_ok
     /\ SecondCall.started
     /\ SecondCall.unw_ok
     /\ SecondCall.skip > Len(ReferenceCall.out)) => SecondCall.out = <<>>

\* a capture with skip 3 of a stack two frames deep has returned
C22_Witness ==
    /\ Len(calls) = 2
    /\ SecondCall.started
    /\ SecondCall.unw_ok
    /\ Len(ReferenceCall.out) = 2
    /\ SecondCall.skip = 3
    /\ SecondCall.out = <<>>
    /\ pc = "idle"

(***************************************************************************)
(* Line and column numbers.  std::uint_least32_t has 32 bits, Dwarf_Word   *)
(* 64 and int 32; the model keeps the proportions with UintBits bits for   *)
(* std::uint_least32_t and int, and twice as many for Dwarf_Word.          *)
(***************************************************************************)
UintBits == 3

\* std::numeric_limits<std::uint_least32_t>::max()
UintMax == 2 ^ UintBits - 1

\* static_cast<std::uint_least32_t>(v)
static_cast_uint_least32(v) == v % (2 ^ UintBits)

\* the word narrowed without being clamped first
narrowed_to_uint_least32(word) == static_cast_uint_least32(word)

\* clamp_to_uint_least32: std::clamp(word, 0, max) and the cast
clamp_to_uint_least32(word) ==
    static_cast_uint_least32(IF word < 0 THEN 0 ELSE IF UintMax < word THEN UintMax ELSE word)

\* the numbers a resolver reads: dwarf_lineno and dwarf_linecol give an int, the
\* DW_AT_call_line and DW_AT_call_column attributes a Dwarf_Word, backtrace_pcinfo
\* an int; a line or column of a line table is never negative
ValuesRead(fn) ==
    IF fn \in {"call_line", "call_column"} THEN 0..(2 ^ (2 * UintBits) - 1)
    ELSE 0..(2 ^ (UintBits - 1) - 1)

NumbersRead == {"dwarf_lineno", "dwarf_linecol", "call_line", "call_column", "lineno"}

\* get_most_inline_source_location, get_inline_call_location and the callback of
\* backtrace_pcinfo: the number in the source location of a logical entry.  A
\* number the library could not give stays at the 0 it was initialised with.
source_location(fn, known, value) ==
    /\ cv_call' = [fn |-> fn, known |-> known, value |-> value]
    /\ LET read == IF known THEN value ELSE 0
           \* an int argument converts to the Dwarf_Word parameter
           word == read % (2 ^ (2 * UintBits))
       IN cv_result' = IF fn = "lineno" THEN static_cast_uint_least32(read)
                       ELSE clamp_to_uint_least32(word)
    /\ UNCHANGED <<oopVars, mh, fnVars>>
    /\ UNCHANGED notAuxVars

ValuesInit ==
    /\ CaptureParked
    /\ module_lookup = "module_info"
    /\ DiaFresh
    /\ DwflParked
    /\ ModuleMapParked
    /\ ResolveParked
    /\ AuxParked

ValuesNext ==
    \E fn \in NumbersRead, known \in BOOLEAN :
        \E value \in ValuesRead(fn) : source_location(fn, known, value)

SpecValues == ValuesInit /\ [][ValuesNext]_vars

\* C23: every line and column number of a logical frame is the value of the debug
\* information clamped to the range of a 32-bit unsigned: a value above the
\* maximum is reported as the maximum, never wrapped or truncated, and zero is
\* reported only for an unknown value (one the library could not give, or gave
\* as 0).
C23_NumbersClamped ==
    cv_call.fn \in NumbersRead =>
        /\ cv_call.known =>
              cv_result = IF cv_call.value > UintMax THEN UintMax ELSE cv_call.value
        /\ cv_result = 0 => (~cv_call.known \/ cv_call.value = 0)

\* a call line above the maximum was reported as the maximum
C23_Witness ==
    /\ cv_call.fn = "call_line"
    /\ cv_call.known
    /\ cv_call.value > UintMax + 1
    /\ cv_result = UintMax

(***************************************************************************)
(* The out-of-process example: the host writes its process handle and the  *)
(* captured entries to the standard input of the watchdog, which reads     *)
(* them back and resolves them.                                            *)
(***************************************************************************)
\* return EXIT_SUCCESS
EXIT_SUCCESS == 0
\* return EXIT_FAILURE
EXIT_FAILURE == 1

\* the values of one byte
ByteValues == 256

\* the process handles DuplicateHandle may give the host, and the addresses
\* capture_stacktrace may give it: values of more than one byte
HostHandles == {420, 65540}
HostAddresses == {a * 65537 : a \in 1..MaxIp}
HostEntries == UNION {[1..n -> HostAddresses] : n \in 0..MaxDepth}

RECURSIVE object_representation(_, _)
\* the bytes of a trivially copyable value of `size` bytes, lowest first (AMD64)
object_representation(value, size) ==
    IF size = 0 THEN <<>>
    ELSE <<value % ByteValues>> \o object_representation(value \div ByteValues, size - 1)

\* a conversion that keeps only the lowest byte of the value
as_bytes_low_byte(value) ==
    <<value % ByteValues>> \o [i \in 1..(PtrSize - 1) |-> 0]

\* std::as_bytes(std::span{&value, 1}) of a HANDLE, a std::size_t or a
\* stacktrace_entry: sizeof value bytes
as_bytes(value) == object_representation(value, PtrSize)

RECURSIVE as_bytes_span(_)
\* std::as_bytes(std::span{entries})
as_bytes_span(entries) ==
    IF entries = <<>> THEN <<>> ELSE as_bytes(Head(entries)) \o as_bytes_span(Tail(entries))

RECURSIVE value_of_bytes(_)
\* the value whose object representation the bytes are
value_of_bytes(bytes) ==
    IF bytes = <<>> THEN 0 ELSE Head(bytes) + ByteValues * value_of_bytes(Tail(bytes))

\* std::as_writable_bytes(std::span{entries}) once filled: the entries the
\* bytes are the representation of
entries_of_bytes(bytes) ==
    [i \in 1..(Len(bytes) \div PtrSize) |->
        value_of_bytes(SubSeq(bytes, (i - 1) * PtrSize + 1, i * PtrSize))]

\* the host's statement after a write_to_handle that returned true
host_after_write ==
    CASE host.pc = "write_handle" -> [host EXCEPT !.pc = "capture_stacktrace", !.bytes = <<>>]
      [] host.pc = "write_count" ->
            [host EXCEPT !.pc = "write_entries", !.bytes = as_bytes_span(host.entries)]
      [] host.pc = "write_entries" -> [host EXCEPT !.pc = "wait", !.bytes = <<>>]

\* write_to_handle: one WriteFile of the loop.  It fails, or writes some of
\* the bytes left; write_to_handle returns once none is left, and on false
\* the host throws.
WriteFile(ok, n) ==
    /\ host.pc \in {"write_handle", "write_count", "write_entries"}
    /\ n <= Len(host.bytes)
    /\ n = 0 => host.bytes = <<>>
    /\ IF ~ok
       THEN /\ host' = [host EXCEPT !.pc = "failed"]
            /\ UNCHANGED stdin_pipe
       ELSE /\ stdin_pipe' = stdin_pipe \o SubSeq(host.bytes, 1, n)
            /\ host' = IF n = Len(host.bytes) THEN host_after_write
                       ELSE [host EXCEPT !.bytes = SubSeq(host.bytes, n + 1, Len(host.bytes))]
    /\ UNCHANGED <<watchdog, cvVars, mh, fnVars>>
    /\ UNCHANGED notAuxVars

\* const auto entries = hindsight::capture_stacktrace(); then
\* write_to_handle(..., entries.size()) begins
host_capture_stacktrace(entries) ==
    /\ host.pc = "capture_stacktrace"
    /\ host' = [host EXCEPT !.pc = "write_count", !.entries = entries,
                            !.bytes = as_bytes(Len(entries))]
    /\ UNCHANGED <<watchdog, stdin_pipe, cvVars, mh, fnVars>>
    /\ UNCHANGED notAuxVars

\* throw_last_system_error / an exception of the resolver: control goes to
\* the handler of run()
throw(what) == [watchdog EXCEPT !.pc = "catch", !.what = what]

\* GetStdHandle(STD_INPUT_HANDLE); then read_from_handle(stdin_handle, host_handle) begins
GetStdHandle(ok) ==
    /\ watchdog.pc = "GetStdHandle"
    /\ watchdog' = IF ok THEN [watchdog EXCEPT !.pc = "read_handle", !.need = PtrSize,
                                               !.buf = <<>>]
                   ELSE throw("stdin")
    /\ UNCHANGED <<host, stdin_pipe, cvVars, mh, fnVars>>
    /\ UNCHANGED notAuxVars

\* the watchdog's statement after a read_from_handle that returned true
watchdog_after_read(bytes) ==
    CASE watchdog.pc = "read_handle" ->
            [watchdog EXCEPT !.pc = "resolver", !.host_handle = value_of_bytes(bytes),
                             !.need = 0, !.buf = <<>>]
      [] watchdog.pc = "read_count" ->
            \* auto entries = std::vector<stacktrace_entry>(entry_count)
            [watchdog EXCEPT !.pc = "read_entries", !.entry_count = value_of_bytes(bytes),
                             !.entries = [i \in 1..value_of_bytes(bytes) |-> 0],
                             !.need = value_of_bytes(bytes) * PtrSize, !.buf = <<>>]
      [] watchdog.pc = "read_entries" ->
            [watchdog EXCEPT !.pc = "resolve", !.entries = entries_of_bytes(bytes),
                             !.need = 0, !.buf = <<>>, !.entry_idx = 0]

\* read_from_handle: one ReadFile of the loop.  It fails, or takes some of the
\* bytes in the pipe; read_from_handle returns once the span is full, and on
\* false the watchdog throws.
ReadFile(ok, n) ==
    /\ watchdog.pc \in {"read_handle", "read_count", "read_entries"}
    /\ IF ~ok
       THEN /\ n = 0
            /\ watchdog' = throw(watchdog.pc)
            /\ UNCHANGED stdin_pipe
       ELSE /\ n <= watchdog.need
            /\ n <= Len(stdin_pipe)
            /\ n = 0 => watchdog.need = 0
            /\ stdin_pipe' = SubSeq(stdin_pipe, n + 1, Len(stdin_pipe))
            /\ LET bytes == watchdog.buf \o SubSeq(stdin_pipe, 1, n)
               IN watchdog' = IF n = watchdog.need THEN watchdog_after_read(bytes)
                              ELSE [watchdog EXCEPT !.buf = bytes, !.need = @ - n]
    /\ UNCHANGED <<host, cvVars, mh, fnVars>>
    /\ UNCHANGED notAuxVars

\* auto host_resolver = resolver{host_handle}; then
\* read_from_handle(stdin_handle, entry_count) begins
resolver_constructor(ok) ==
    /\ watchdog.pc = "resolver"
    /\ watchdog' = IF ok THEN [watchdog EXCEPT !.pc = "read_count", !.need = PtrSize,
                                               !.buf = <<>>]
                   ELSE throw("resolver")
    /\ UNCHANGED <<host, stdin_pipe, cvVars, mh, fnVars>>
    /\ UNCHANGED notAuxVars

\* for (const auto entry : entries): host_resolver.resolve(entry, ...) and
\* the printing of its frames, or an exception from them
watchdog_resolve(ok) ==
    /\ watchdog.pc = "resolve"
    /\ watchdog.entry_idx < Len(watchdog.entries)
    /\ watchdog' = IF ok THEN [watchdog EXCEPT !.entry_idx = @ + 1] ELSE throw("resolve")
    /\ UNCHANGED <<host, stdin_pipe, cvVars, mh, fnVars>>
    /\ UNCHANGED notAuxVars

\* the end of the try block: return EXIT_SUCCESS
return_EXIT_SUCCESS ==
    /\ watchdog.pc = "resolve"
    /\ watchdog.entry_idx = Len(watchdog.entries)
    /\ watchdog' = [watchdog EXCEPT !.pc = "exited", !.exit = EXIT_SUCCESS]
    /\ UNCHANGED <<host, stdin_pipe, cvVars, mh, fnVars>>
    /\ UNCHANGED notAuxVars

\* a handler that reports the exception and returns success
run_catch_swallows(what) == [log |-> what, exit |-> EXIT_SUCCESS]

\* catch (const std::exception &e) { print_log("WATCHDOG: {}\n", e.what());
\* return EXIT_FAILURE; } and catch (...)
run_catch(what) == [log |-> what, exit |-> EXIT_FAILURE]

watchdog_catch ==
    /\ watchdog.pc = "catch"
    /\ watchdog' = [watchdog EXCEPT !.pc = "exited", !.log = run_catch(watchdog.what).log,
                                    !.exit = run_catch(watchdog.what).exit]
    /\ UNCHANGED <<host, stdin_pipe, cvVars, mh, fnVars>>
    /\ UNCHANGED notAuxVars

\* the host has created the pipe and the watchdog process and begins
\* write_to_handle(watchdog_stdin_pipe.write.get(), host_process_handle.get())
OutOfProcessInit ==
    /\ CaptureParked
    /\ module_lookup = "module_info"
    /\ DiaFresh
    /\ DwflParked
    /\ ModuleMapParked
    /\ ResolveParked
    /\ ValuesParked
    /\ ModuleHandlesParked
    /\ FnParked
    /\ \E handle \in HostHandles :
          host = [pc |-> "write_handle", handle |-> handle, entries |-> <<>>,
                  bytes |-> as_bytes(handle)]
    /\ watchdog = [pc |-> "GetStdHandle", need |-> 0, buf |-> <<>>, host_handle |-> 0,
                   entry_count |-> 0, entries |-> <<>>, entry_idx |-> 0,
                   what |-> "none", log |-> "none", exit |-> "running"]
    /\ stdin_pipe = <<>>

OutOfProcessNext ==
    \/ \E ok \in BOOLEAN, n \in 0..PtrSize : WriteFile(ok, n)
    \/ \E entries \in HostEntries : host_capture_stacktrace(entries)
    \/ \E ok \in BOOLEAN : GetStdHandle(ok)
    \/ \E ok \in BOOLEAN, n \in 0..PtrSize : ReadFile(ok, n)
    \/ \E ok \in BOOLEAN : resolver_constructor(ok)
    \/ \E ok \in BOOLEAN : watchdog_resolve(ok)
    \/ return_EXIT_SUCCESS
    \/ watchdog_catch

SpecOutOfProcess == OutOfProcessInit /\ [][OutOfProcessNext]_vars

\* the watchdog has read everything run() reads
ReadAll == watchdog.pc \in {"resolve", "exited"} /\ watchdog.what \notin
               {"stdin", "read_handle", "resolver", "read_count", "read_entries"}

\* C26: the host writes its pointer-sized handle, the pointer-sized entry count
\* and then exactly that many raw addresses; the watchdog reads the same three
\* items in the same order and sizes, and so holds exactly the handle and the
\* captured address sequence, with nothing left in the pipe.
C26_StreamRoundTrip ==
    /\ watchdog.pc \in {"resolver", "read_count"} => watchdog.host_handle = host.handle
    /\ (watchdog.pc = "read_entries" /\ host.pc \notin {"failed", "capture_stacktrace"})
          => watchdog.entry_count = Len(host.entries)
    /\ ReadAll =>
          /\ watchdog.host_handle = host.handle
          /\ watchdog.entry_count = Len(host.entries)
          /\ watchdog.entries = host.entries
          /\ stdin_pipe = <<>>
          /\ host.pc \in {"write_entries", "wait", "failed"}
          /\ host.bytes = <<>>

\* the watchdog holds the two captured entries the host wrote
C26_Witness ==
    /\ ReadAll
    /\ Len(host.entries) = MaxDepth
    /\ host.entries[1] # host.entries[2]
    /\ watchdog.entries = host.entries

\* C27: the watchdog exits with 0 only if it read the handle, the count and
\* all the entries and resolved every address; after any failure it has
\* written a diagnostic to stderr and exits with a non-zero code.
C27_ExitCodeReportsFailure ==
    watchdog.pc = "exited" =>
        /\ watchdog.exit = EXIT_SUCCESS =>
              /\ watchdog.what = "none"
              /\ watchdog.host_handle = host.handle
              /\ watchdog.entry_count = Len(host.entries)
              /\ watchdog.entries = host.entries
              /\ watchdog.entry_idx = Len(host.entries)
        /\ watchdog.what # "none" =>
              /\ watchdog.exit # EXIT_SUCCESS
              /\ watchdog.log = watchdog.what

\* the resolve of the second of two entries raised, and the watchdog has exited
C27_Witness ==
    /\ watchdog.pc = "exited"
    /\ watchdog.what = "resolve"
    /\ watchdog.entry_idx = 1
    /\ Len(watchdog.entries) = MaxDepth
    /\ watchdog.exit = EXIT_FAILURE

(***************************************************************************)
(* windows/module_map.cpp: get_remote_module_handles, the list of the      *)
(* module handles of another process.                                      *)
(***************************************************************************)
\* constexpr auto initial_capacity = std::size_t{64}
initial_capacity == 64
\* std::numeric_limits<DWORD>::max() / sizeof(HMODULE)
max_module_count == 536870911
\* HMODULE{}: an element of the vector that no enumeration filled in
NullHandle == 0

\* the handle of the i-th module of the target process
ModuleHandle(i) == i

\* how many modules the target process may have when it is enumerated
ModuleCounts == 0..(initial_capacity + MaxDepth)

\* modules.resize(n): the first n elements, value-initialized where new
resize(modules, n) ==
    [i \in 1..n |-> IF i <= Len(modules) THEN modules[i] ELSE NullHandle]

\* if (needed_module_count <= modules.size()) break;  with the size
\* modules.resize(needed_module_count) has just given the vector
enumeration_complete(needed_module_count, size) == needed_module_count <= size

\* auto modules = std::vector<HMODULE>(initial_capacity)
get_remote_module_handles_begin ==
    /\ mh.pc \in {"idle", "returned"}
    /\ mh.started < MaxResolves
    /\ mh' = [pc |-> "EnumProcessModules", modules |-> resize(<<>>, initial_capacity),
              capacity |-> initial_capacity, calls |-> 0, short |-> FALSE,
              result |-> "pending", started |-> mh.started + 1]
    /\ UNCHANGED <<cvVars, oopVars, fnVars>>
    /\ UNCHANGED notAuxVars

\* one turn of the loop: the vector resized to its capacity, EnumProcessModules
\* of a process that has `count` modules, and the statements after it
EnumProcessModules(ok, count) ==
    /\ mh.pc = "EnumProcessModules"
    /\ LET size == Min(mh.capacity, max_module_count)
           \* EnumProcessModules fills in as many handles as the buffer holds
           filled == [i \in 1..size |->
                         IF i <= count THEN ModuleHandle(i) ELSE resize(mh.modules, size)[i]]
           needed_module_count == count
           resized == resize(filled, needed_module_count)
       IN IF ~ok
          THEN mh' = [mh EXCEPT !.pc = "returned", !.result = "nullopt", !.calls = @ + 1,
                                !.modules = resize(mh.modules, size)]
          ELSE IF needed_module_count > size /\ needed_module_count > max_module_count
          THEN mh' = [mh EXCEPT !.pc = "returned", !.result = "nullopt", !.calls = @ + 1,
                                !.modules = filled, !.short = TRUE]
          ELSE IF enumeration_complete(needed_module_count, Len(resized))
          THEN mh' = [mh EXCEPT !.pc = "returned", !.calls = @ + 1,
                                !.modules = resized,
                                !.capacity = IF needed_module_count > @
                                             THEN needed_module_count ELSE @,
                                !.short = @ \/ needed_module_count > size,
                                !.result = IF resized = <<>> THEN "nullopt" ELSE "modules"]
          ELSE mh' = [mh EXCEPT !.calls = @ + 1, !.modules = resized,
                                !.capacity = IF needed_module_count > @
                                             THEN needed_module_count ELSE @,
                                !.short = TRUE]
    /\ UNCHANGED <<cvVars, oopVars, fnVars>>
    /\ UNCHANGED notAuxVars

ModuleHandlesInit ==
    /\ CaptureParked
    /\ module_lookup = "module_info"
    /\ DiaFresh
    /\ DwflParked
    /\ ModuleMapParked
    /\ ResolveParked
    /\ AuxParked

ModuleHandlesNext ==
    \/ get_remote_module_handles_begin
    \/ \E ok \in BOOLEAN, count \in ModuleCounts : EnumProcessModules(ok, count)

SpecModuleHandles == ModuleHandlesInit /\ [][ModuleHandlesNext]_vars

\* C30: every handle of the list get_remote_module_handles returns was filled
\* in by a successful enumeration, for any number of modules, also above the
\* initial capacity; and when an enumeration reported more modules than the
\* buffer held, the enumeration was made again before the list is returned.
C30_EveryHandleEnumerated ==
    (mh.pc = "returned" /\ mh.result = "modules") =>
        /\ \A i \in 1..Len(mh.modules) : mh.modules[i] # NullHandle
        /\ mh.short => mh.calls >= 2

(***************************************************************************)
(* examples/out_of_process/common.hpp: read_from_handle, the loop that     *)
(* fills a span of bytes from a handle.                                    *)
(***************************************************************************)
\* the reads of one call that are followed
MaxReads == 4

\* the sizes of the span, and of what the peer writes
SpanSizes == 0..MaxDepth

\* read_from_handle(handle, bytes) is entered; the peer has written `written`
\* bytes so far and has or has not closed its end
read_from_handle(os, size, written, closed) ==
    /\ rfh.pc \in {"idle", "returned"}
    /\ rfh' = [pc |-> "loop", os |-> os, size |-> size, bytes |-> size, stream |-> written,
               closed |-> closed, reads |-> 0, result |-> FALSE]
    /\ UNCHANGED notRfh
    /\ UNCHANGED oldAuxVars
    /\ UNCHANGED notAuxVars

\* the peer writes more bytes to the stream, or closes its end
peer_writes(n) ==
    /\ rfh.pc = "loop"
    /\ ~rfh.closed
    /\ rfh.stream + n \in SpanSizes
    /\ rfh' = [rfh EXCEPT !.stream = @ + n]
    /\ UNCHANGED notRfh
    /\ UNCHANGED oldAuxVars
    /\ UNCHANGED notAuxVars

peer_closes ==
    /\ rfh.pc = "loop"
    /\ ~rfh.closed
    /\ rfh' = [rfh EXCEPT !.closed = TRUE]
    /\ UNCHANGED notRfh
    /\ UNCHANGED oldAuxVars
    /\ UNCHANGED notAuxVars

\* What one ReadFile / read of the loop can give for a span of rfh.bytes bytes:
\* "error" (ReadFile gives FALSE, read gives -1), "EINTR" (read only), or a
\* count of bytes.  An empty span or an empty stream gives the count 0: the
\* read of an empty stream waits while the peer has its end open; once the peer
\* has closed it, read gives 0 (end of file) and ReadFile on a pipe gives FALSE.
ReadOutcomes ==
    {<<"error", 0>>}
    \cup (IF rfh.os = "unix" THEN {<<"EINTR", 0>>} ELSE {})
    \cup (IF rfh.bytes = 0 THEN {<<"bytes", 0>>}
          ELSE IF rfh.stream > 0
          THEN {<<"bytes", n>> : n \in 1..Min(rfh.stream, rfh.bytes)}
          ELSE IF rfh.closed /\ rfh.os = "unix" THEN {<<"bytes", 0>>}
          ELSE {})

\* one turn of while (true): the read, if (bytes_read == bytes.size()) return true;
\* bytes = bytes.subspan(bytes_read)
read_from_handle_loop(outcome) ==
    /\ rfh.pc = "loop"
    /\ rfh.reads < MaxReads
    /\ outcome \in ReadOutcomes
    /\ rfh' = CASE outcome[1] = "error" ->
                     [rfh EXCEPT !.pc = "returned", !.result = FALSE, !.reads = @ + 1]
                [] outcome[1] = "EINTR" -> rfh
                [] OTHER ->
                     IF outcome[2] = rfh.bytes
                     THEN [rfh EXCEPT !.pc = "returned", !.result = TRUE, !.reads = @ + 1,
                                      !.bytes = 0, !.stream = @ - outcome[2]]
                     ELSE [rfh EXCEPT !.reads = @ + 1, !.bytes = @ - outcome[2],
                                      !.stream = @ - outcome[2]]
    /\ UNCHANGED notRfh
    /\ UNCHANGED oldAuxVars
    /\ UNCHANGED notAuxVars

ReadFromHandleInit ==
    /\ CaptureParked
    /\ module_lookup = "module_info"
    /\ DiaFresh
    /\ DwflParked
    /\ ModuleMapParked
    /\ ResolveParked
    /\ AuxParked

ReadFromHandleNext ==
    \/ \E os \in {"windows", "unix"}, size \in SpanSizes, written \in SpanSizes,
          closed \in BOOLEAN : read_from_handle(os, size, written, closed)
    \/ \E n \in 1..MaxDepth : peer_writes(n)
    \/ peer_closes
    \/ \E outcome \in {"error", "EINTR", "bytes"} \X SpanSizes : read_from_handle_loop(outcome)

SpecReadFromHandle == ReadFromHandleInit /\ [][ReadFromHandleNext]_vars

\* C31: read_from_handle returns after finitely many reads in every case - a
\* read that does not end the call takes at least one byte of the span, so a
\* span of n bytes needs at most n reads (one for an empty span) - with true
\* only once exactly the requested bytes have been read; it does not keep
\* reading when the peer has closed the stream before all bytes arrived.
C31_ReadFromHandleReturns ==
    /\ rfh.reads <= (IF rfh.size = 0 THEN 1 ELSE rfh.size)
    /\ (rfh.pc = "returned" /\ rfh.result) => rfh.bytes = 0

(***************************************************************************)
(* The lifetime of a debug session.  libdw: resolver holds its impl, the   *)
(* owner of the Dwfl session, through a std::shared_ptr and an entry is    *)
(* made with shared_from_this().  DIA: the session map of the resolver and *)
(* every entry hold a com_ptr to the IDiaSession.  An entry without symbol *)
(* information is made with a null reference.                              *)
(***************************************************************************)
\* the sessions of a symbolizer: one per module for DIA, the first one for libdw
DebugSessions == 1..2

\* an entry made without a reference to the session of its symbol
entry_without_reference(bare) == FALSE

\* whether the entry is made with shared_from_this() / the session com_ptr:
\* cb_state.submit({..., shared_from_this()}), callback({entry, is_inline,
\* {session, symbol}}); on_failure passes nullptr / {}
entry_holds_session(bare) == ~bare

\* the last reference to a session given up: ~impl / Release destroy it
release(l, s) ==
    [l EXCEPT !.use_count[s] = @ - 1,
              !.destroyed = IF l.use_count[s] = 1 THEN @ \cup {s} ELSE @]

RECURSIVE release_all(_, _)
release_all(l, S) ==
    IF S = {} THEN l
    ELSE LET s == CHOOSE x \in S : TRUE IN release_all(release(l, s), S \ {s})

\* resolve hands one entry to the sink, which keeps it: a bare one, or one with
\* the symbol of session s; DIA opens and caches the session of a module at the
\* first address inside it, and gives a bare entry if it cannot
lt_resolve(s, bare, opened_ok) ==
    /\ lt.pc = "alive"
    /\ lt.resolver
    /\ Len(lt.entries) < MaxChain
    /\ lt.backend = "libdw" => s = 1
    /\ (s \notin lt.open /\ ~opened_ok) => bare
    /\ LET cached == IF s \in lt.open \/ ~opened_ok THEN lt
                     ELSE [lt EXCEPT !.open = @ \cup {s}, !.use_count[s] = 1]
           made == [from |-> IF bare THEN 0 ELSE s, holds |-> entry_holds_session(bare)]
       IN lt' = [cached EXCEPT !.entries = Append(@, made),
                               !.use_count[s] = IF made.holds THEN @ + 1 ELSE @]
    /\ UNCHANGED notLt
    /\ UNCHANGED oldAuxVars
    /\ UNCHANGED notAuxVars

\* logical_stacktrace_entry(const logical_stacktrace_entry &) = default
copy_logical_stacktrace_entry(i) ==
    /\ lt.pc = "alive"
    /\ i \in 1..Len(lt.entries)
    /\ Len(lt.entries) < MaxChain
    /\ LET c == lt.entries[i]
       IN lt' = IF c.holds
                THEN [lt EXCEPT !.entries = Append(@, c), !.use_count[c.from] = @ + 1]
                ELSE [lt EXCEPT !.entries = Append(@, c)]
    /\ UNCHANGED notLt
    /\ UNCHANGED oldAuxVars
    /\ UNCHANGED notAuxVars

\* ~logical_stacktrace_entry() = default
destroy_logical_stacktrace_entry(i) ==
    /\ lt.pc = "alive"
    /\ i \in 1..Len(lt.entries)
    /\ LET c == lt.entries[i]
           rest == [lt EXCEPT !.entries = SubSeq(@, 1, i - 1) \o SubSeq(@, i + 1, Len(@))]
       IN lt' = IF c.holds THEN release(rest, c.from) ELSE rest
    /\ UNCHANGED notLt
    /\ UNCHANGED oldAuxVars
    /\ UNCHANGED notAuxVars

\* ~resolver: m_impl / the session map give up their references
destroy_resolver ==
    /\ lt.pc = "alive"
    /\ lt.resolver
    /\ lt' = release_all([lt EXCEPT !.resolver = FALSE], lt.open)
    /\ UNCHANGED notLt
    /\ UNCHANGED oldAuxVars
    /\ UNCHANGED notAuxVars

\* resolver::resolver(): libdw makes its impl and with it the session, DIA an
\* empty session map
LifetimeInit ==
    /\ CaptureParked
    /\ module_lookup = "module_info"
    /\ DiaFresh
    /\ DwflParked
    /\ ModuleMapParked
    /\ ResolveParked
    /\ OldAuxParked
    /\ ReadFromHandleParked
    /\ walk = NotCalled /\ dfs = NotCalled /\ gmfn = NotCalled /\ ict = NotCalled
    /\ \E b \in {"libdw", "dia"} :
          lt = [pc |-> "alive", backend |-> b, resolver |-> TRUE,
                open |-> IF b = "libdw" THEN {1} ELSE {},
                use_count |-> [s \in DebugSessions |-> IF b = "libdw" /\ s = 1 THEN 1 ELSE 0],
                destroyed |-> {}, entries |-> <<>>]

LifetimeNext ==
    \/ \E s \in DebugSessions, bare \in BOOLEAN, opened_ok \in BOOLEAN :
          lt_resolve(s, bare, opened_ok)
    \/ \E i \in 1..MaxChain : copy_logical_stacktrace_entry(i)
    \/ \E i \in 1..MaxChain : destroy_logical_stacktrace_entry(i)
    \/ destroy_resolver

SpecLifetime == LifetimeInit /\ [][LifetimeNext]_vars

\* C35: no debug session is destroyed while a logical entry made from it
\* exists: every entry that is not bare holds a shared reference to its
\* session, so the session of each such entry is alive after resolve has
\* returned and after the symbolizer has been destroyed.
C35_SessionOutlivesEntries ==
    lt.pc = "alive" =>
        \A i \in 1..Len(lt.entries) :
            lt.entries[i].from # 0 =>
                /\ lt.entries[i].from \notin lt.destroyed
                /\ lt.use_count[lt.entries[i].from] >= 1

\* C35: the symbolizer is gone, the session of one module went with it, and an
\* entry made from the other session still exists
C35_Witness ==
    /\ lt.pc = "alive"
    /\ ~lt.resolver
    /\ lt.destroyed # {}
    /\ \E i \in 1..Len(lt.entries) : lt.entries[i].from # 0

(***************************************************************************)
(* libdw: resolve_in_module, the walk over the DIE stack of an address and *)
(* the source location each entry is given.                                *)
(***************************************************************************)
\* a source location nothing is known of: file name nullptr, line 0, column 0
NoSourceLocation == [file |-> 0, line |-> 0, column |-> 0]

\* what the debug information has for a location: the file (0: no name can be
\* had for it), the line and the column as the library gives them
LocationsRead ==
    {NoSourceLocation,
     [file |-> 0, line |-> 1, column |-> 1],
     [file |-> 1, line |-> 1, column |-> 0],
     [file |-> 1, line |-> UintMax + 1, column |-> 1]}

\* the DW_AT_call_file / call_line / call_column of the DIEs of a stack: only an
\* inlined instance has them
CallAttributes(die_stack) ==
    {c \in [1..Len(die_stack) -> LocationsRead] :
        \A i \in 1..Len(die_stack) : ~die_stack[i].inline => c[i] = NoSourceLocation}

\* the location an outer entry is given whatever the inlined instance says
no_call_location(compilation_unit, attributes) == NoSourceLocation

\* get_most_inline_source_location(compilation_unit, address): dwarf_getsrc_die,
\* dwarf_linesrc, dwarf_lineno, dwarf_linecol; nullopt without a file name
get_most_inline_source_location(compilation_unit, address_row) ==
    IF address_row.file = 0 THEN NoSourceLocation
    ELSE [file |-> address_row.file,
          line |-> clamp_to_uint_least32(address_row.line),
          column |-> clamp_to_uint_least32(address_row.column)]

\* get_inline_call_location(compilation_unit, function): nullopt without a
\* DW_AT_call_file that dwarf_filesrc can name
get_inline_call_location(compilation_unit, attributes) ==
    IF attributes.file = 0 THEN NoSourceLocation
    ELSE [file |-> attributes.file,
          line |-> clamp_to_uint_least32(attributes.line),
          column |-> clamp_to_uint_least32(attributes.column)]

\* a walk that goes to the DIE stack whatever was found
always_from_die_stack(compilation_unit, die_stack) == "die_stack"

\* resolve_in_module: if (!cudie_and_addr_in_cu) / if (die_stack.empty())
\* resolve_in_symbol_table(module, cb_state), else resolve_from_dfs_die_stack
symbol_table_or_die_stack(compilation_unit, die_stack) ==
    IF ~compilation_unit \/ die_stack = <<>> THEN "symbol_table" ELSE "die_stack"

\* callback_state::submit: done = callback(logical); entry_issued = true
walk_submit(w, made) ==
    IF ~w.done
    THEN [w EXCEPT !.out = Append(@, made),
                   !.done = callback_done(w.sink, Len(w.out) + 1),
                   !.entry_issued = TRUE]
    ELSE w

\* resolve_in_module(module, cb_state) up to the symbol table or the first
\* turn of the loop of resolve_from_dfs_die_stack
walk_resolve_in_module(compilation_unit, die_stack, call_sites, row, symbol_name, s) ==
    /\ walk.pc = "none"
    /\ ~range_empty(s)
    /\ ~compilation_unit => die_stack = <<>> /\ row = NoSourceLocation
    /\ walk' = [pc |-> symbol_table_or_die_stack(compilation_unit, die_stack),
                compilation_unit |-> compilation_unit, dies |-> die_stack, calls |-> call_sites,
                row |-> row, symbol_name |-> symbol_name, sink |-> s,
                top |-> 1,
                source_location |-> get_most_inline_source_location(compilation_unit, row),
                out |-> <<>>, done |-> FALSE, entry_issued |-> FALSE]
    /\ UNCHANGED notWalk
    /\ UNCHANGED oldAuxVars
    /\ UNCHANGED notAuxVars

\* resolve_from_dfs_die_stack: one turn of while (!stack.empty())
walk_resolve_from_dfs_die_stack ==
    /\ walk.pc = "die_stack"
    /\ IF walk.top > Len(walk.dies)
       THEN walk' = [walk EXCEPT !.pc = "returned"]
       ELSE LET die == walk.dies[walk.top]
                submitted ==
                    walk_submit(walk, [kind |-> "die", die |-> walk.top,
                                       inlined |-> die.inline,
                                       source |-> walk.source_location, holds |-> TRUE])
            IN IF die.fn
               THEN IF submitted.done \/ ~die.inline
                    THEN walk' = [submitted EXCEPT !.pc = "returned"]
                    ELSE walk' = [submitted EXCEPT
                                     !.source_location =
                                         get_inline_call_location(walk.compilation_unit,
                                                                  walk.calls[walk.top]),
                                     !.top = @ + 1]
               ELSE walk' = [walk EXCEPT !.top = @ + 1]
    /\ UNCHANGED notWalk
    /\ UNCHANGED oldAuxVars
    /\ UNCHANGED notAuxVars

\* resolve_in_symbol_table: dwfl_module_addrinfo, then submit or on_failure
walk_resolve_in_symbol_table ==
    /\ walk.pc = "symbol_table"
    /\ LET made == IF walk.symbol_name
                   THEN [kind |-> "symbol", die |-> 0, inlined |-> FALSE,
                         source |-> NoSourceLocation, holds |-> TRUE]
                   ELSE [kind |-> "bare", die |-> 0, inlined |-> FALSE,
                         source |-> NoSourceLocation, holds |-> FALSE]
       IN walk' = [(IF walk.symbol_name \/ ~walk.entry_issued
                    THEN walk_submit(walk, made) ELSE walk) EXCEPT !.pc = "returned"]
    /\ UNCHANGED notWalk
    /\ UNCHANGED oldAuxVars
    /\ UNCHANGED notAuxVars

WalkInit ==
    /\ CaptureParked
    /\ module_lookup = "module_info"
    /\ DiaFresh
    /\ DwflParked
    /\ ModuleMapParked
    /\ ResolveParked
    /\ OldAuxParked
    /\ ReadFromHandleParked
    /\ lt = NotCalled /\ walk = NotCalled /\ dfs = NotCalled /\ gmfn = NotCalled
    /\ ict = NotCalled

WalkNext ==
    \/ /\ walk.pc = "none"
       /\ \E die_stack \in DieStacks :
             \E call_sites \in CallAttributes(die_stack), compilation_unit \in BOOLEAN,
                row \in LocationsRead, symbol_name \in BOOLEAN, s \in Sinks :
                walk_resolve_in_module(compilation_unit, die_stack, call_sites, row,
                                       symbol_name, s)
    \/ walk_resolve_from_dfs_die_stack
    \/ walk_resolve_in_symbol_table

SpecWalk == WalkInit /\ [][WalkNext]_vars

\* the location as the entry reports it: numbers above the range of the entry's
\* fields are reported as the largest one
Reported(l) ==
    [file |-> l.file,
     line |-> IF l.line > UintMax THEN UintMax ELSE l.line,
     column |-> IF l.column > UintMax THEN UintMax ELSE l.column]

C37_SymbolTableFallback ==
    (walk.pc = "returned" /\ (~walk.compilation_unit \/ walk.dies = <<>>)) =>
        /\ Len(walk.out) = 1
        /\ ~walk.out[1].inlined
        /\ walk.out[1].source = NoSourceLocation
        /\ walk.out[1].kind = IF walk.symbol_name THEN "symbol" ELSE "bare"

\* C37: a compilation unit has the address but none of its function DIEs, and
\* the symbol table gave the name
C37_Witness ==
    /\ walk.pc = "returned"
    /\ walk.compilation_unit
    /\ walk.dies = <<>>
    /\ walk.symbol_name
    /\ Len(walk.out) = 1
    /\ walk.out[1].kind = "symbol"

(***************************************************************************)
(* windows/module_map.cpp: get_module_file_name, the loop that reads the   *)
(* path of a module into a std::wstring it enlarges.  DWORD has 32 bits;   *)
(* the model keeps the loop with DwordBits bits.                           *)
(***************************************************************************)
DwordBits == 10

\* MAX_PATH of the Windows headers
MAX_PATH == 260

\* std::min(std::size_t{std::numeric_limits<DWORD>::max() - 1}, path.max_size())
max_path_size == (2 ^ DwordBits - 1) - 1

\* the lengths of the paths a module can have, the longest one too long for any buffer
PathLengths == 1..(max_path_size + 1)

LargerOf(a, b) == IF a > b THEN a ELSE b

\* The capacity std::wstring allocates for n characters, given the capacity it
\* had: the standard leaves it to the library.  A library that rounds gives
\* n | 7 but at least one and a half times the old capacity (the Microsoft one),
\* one that does not gives n but at least twice the old capacity.
allocated(rounds, n, old) ==
    IF rounds THEN LargerOf(n + (7 - (n % 8)), old + (old \div 2)) ELSE LargerOf(n, 2 * old)

\* path.resize(n): the size becomes n; the string is moved to a larger block
\* only if n is above its capacity
wstring_resize(g, n) ==
    [g EXCEPT !.size = n,
              !.capacity = IF n > g.capacity THEN allocated(g.rounds, n, g.capacity) ELSE @]

\* the retry made with the path at the size it had
same_path_size(size) == size

\* can_double_size ? path.size() * 2 : max_path_size
new_path_size(size) ==
    IF max_path_size - size >= size THEN size * 2 ELSE max_path_size

\* auto path = std::wstring(MAX_PATH, wchar_t{})
module_file_name_begin(process, length, rounds) ==
    /\ gmfn.pc = "none"
    /\ gmfn' = [pc |-> "loop", process |-> process, length |-> length, rounds |-> rounds,
                size |-> MAX_PATH, capacity |-> allocated(rounds, MAX_PATH, 0),
                buffers |-> <<>>, failed |-> FALSE, result |-> "pending", path |-> 0]
    /\ UNCHANGED notGmfn
    /\ UNCHANGED oldAuxVars
    /\ UNCHANGED notAuxVars

\* one turn of while (true).  GetModuleFileNameW / GetModuleFileNameExW give 0
\* when they fail, the number of characters of the path when it fits the buffer
\* with its terminator, and the size of the buffer when they truncated it.
get_module_file_name_loop(ok) ==
    /\ gmfn.pc = "loop"
    /\ LET resized == wstring_resize(gmfn, Min(gmfn.capacity, max_path_size))
           path_buffer_size_with_null == (resized.size + 1) % (2 ^ DwordBits)
           filled_chars == IF ~ok THEN 0
                           ELSE IF gmfn.length < path_buffer_size_with_null THEN gmfn.length
                           ELSE path_buffer_size_with_null
           called == [resized EXCEPT !.buffers = Append(@, resized.size)]
       IN gmfn' =
            IF filled_chars = 0
            THEN [called EXCEPT !.pc = "returned", !.result = "none", !.failed = TRUE]
            ELSE IF filled_chars = path_buffer_size_with_null
            THEN IF ~(called.size < max_path_size)
                 THEN [called EXCEPT !.pc = "returned", !.result = "none"]
                 ELSE wstring_resize(called, new_path_size(called.size))
            ELSE [wstring_resize(called, filled_chars) EXCEPT
                     !.pc = "returned", !.result = "path", !.path = filled_chars]
    /\ UNCHANGED notGmfn
    /\ UNCHANGED oldAuxVars
    /\ UNCHANGED notAuxVars

ModuleFileNameInit ==
    /\ CaptureParked
    /\ module_lookup = "module_info"
    /\ DiaFresh
    /\ DwflParked
    /\ ModuleMapParked
    /\ ResolveParked
    /\ OldAuxParked
    /\ ReadFromHandleParked
    /\ lt = NotCalled /\ walk = NotCalled /\ dfs = NotCalled /\ gmfn = NotCalled
    /\ ict = NotCalled

ModuleFileNameNext ==
    \/ /\ gmfn.pc = "none"
       /\ \E process \in BOOLEAN, length \in PathLengths, rounds \in BOOLEAN :
             module_file_name_begin(process, length, rounds)
    \/ \E ok \in BOOLEAN : get_module_file_name_loop(ok)

SpecModuleFileName == ModuleFileNameInit /\ [][ModuleFileNameNext]_vars

\* the sizes of the buffers handed to the system call so far, and the last of them
BuffersUsed == IF gmfn.pc = "none" THEN <<>> ELSE gmfn.buffers
LastBuffer == BuffersUsed[Len(BuffersUsed)]

\* C38 (as written): the first buffer has the size of the path-length hint, every
\* retry a buffer exactly twice as large as the one before (or the maximum when
\* that would exceed it); the result is the whole path, or none once the buffer
\* is at the maximum and the path still does not fit.
C38_DoublingFromHint ==
    /\ BuffersUsed # <<>> => BuffersUsed[1] = MAX_PATH
    /\ \A i \in 2..Len(BuffersUsed) :
          BuffersUsed[i] = IF 2 * BuffersUsed[i - 1] <= max_path_size
                           THEN 2 * BuffersUsed[i - 1] ELSE max_path_size
    /\ (gmfn.pc = "returned" /\ gmfn.result = "path") => gmfn.path = gmfn.length
    /\ (gmfn.pc = "returned" /\ gmfn.result = "none") =>
          LastBuffer = max_path_size /\ gmfn.length > max_path_size

\* C38 (amended): the first buffer is the whole capacity of a string of the
\* path-length hint, at least the hint; every retry has a buffer at least twice
\* as large as the one before, or the maximum, and never above it, so that the
\* buffers grow strictly and the loop ends; the result is the whole path, or
\* none when the system call failed or the buffer is at the maximum and the
\* path still does not fit.
C38_GrowingBufferUpToMaximum ==
    /\ BuffersUsed # <<>> => BuffersUsed[1] >= MAX_PATH
    /\ \A i \in 1..Len(BuffersUsed) : BuffersUsed[i] <= max_path_size
    /\ \A i \in 2..Len(BuffersUsed) :
          /\ BuffersUsed[i] > BuffersUsed[i - 1]
          /\ BuffersUsed[i] >= Min(2 * BuffersUsed[i - 1], max_path_size)
          /\ gmfn.length > BuffersUsed[i - 1]
    /\ (gmfn.pc = "returned" /\ gmfn.result = "path") =>
          gmfn.path = gmfn.length /\ gmfn.length <= LastBuffer
    /\ (gmfn.pc = "returned" /\ gmfn.result = "none") =>
          gmfn.failed \/ (LastBuffer = max_path_size /\ gmfn.length > max_path_size)

\* C38: a path that needed two retries was returned whole, and the buffers were
\* not the hint and its doubles
C38_Witness ==
    /\ gmfn.pc = "returned"
    /\ gmfn.result = "path"
    /\ Len(gmfn.buffers) = 3
    /\ gmfn.buffers[1] > MAX_PATH
    /\ gmfn.path = gmfn.length

(***************************************************************************)
(* unix/encoding.cpp: iconv_transcode.  The input is a string of bytes of  *)
(* a multibyte encoding: "A" is a character of one byte, "L" the first and *)
(* "C" the second byte of a character of two, "X" a byte that belongs to   *)
(* no character.  A byte of the output is written p * 10 + k: byte k of    *)
(* the conversion of the character at input position p.                    *)
(***************************************************************************)
\* the longest input
MaxInput == 3

InputBytes == {"A", "L", "C", "X"}
Inputs == UNION {[1..n -> InputBytes] : n \in 0..MaxInput}

\* the conversions: to the same encoding, to one where a character of two
\* bytes has one, and to one where a character of one byte has two
Conversions == {"sanitize", "narrow", "widen"}

\* output.max_size(), kept below twice the longest input
string_max_size == 2 * MaxInput - 1

\* the number of bytes (0: none) of the character that begins at position p
CharacterAt(in, p) ==
    IF p > Len(in) THEN 0
    ELSE IF in[p] = "A" THEN 1
    ELSE IF in[p] = "L" /\ p < Len(in) /\ in[p + 1] = "C" THEN 2
    ELSE 0

\* the bytes the conversion gives for the character of n bytes at position p
Converted(cv, p, n) ==
    LET len == CASE cv = "sanitize" -> n
                 [] cv = "narrow" -> 1
                 [] OTHER -> 2
    IN [k \in 1..len |-> p * 10 + k]

\* iconv(conversion, &input_buffer, &input_remaining, &output_buffer,
\* &output_remaining): converts character after character from 0-based offset
\* `at`; stops with EILSEQ at a byte that begins no character, with EINVAL at a
\* first byte the input ends after, with E2BIG when the output has no room
RECURSIVE iconv(_, _, _, _, _)
iconv(cv, in, at, buf, out_at) ==
    LET p == at + 1
        n == CharacterAt(in, p)
        bytes == Converted(cv, p, n)
    IN IF p > Len(in) THEN [errno |-> "none", at |-> at, buf |-> buf, out_at |-> out_at]
       ELSE IF n = 0
       THEN [errno |-> IF in[p] = "L" /\ p = Len(in) THEN "EINVAL" ELSE "EILSEQ",
             at |-> at, buf |-> buf, out_at |-> out_at]
       ELSE IF Len(buf) - out_at < Len(bytes)
       THEN [errno |-> "E2BIG", at |-> at, buf |-> buf, out_at |-> out_at]
       ELSE iconv(cv, in, at + n,
                  [i \in 1..Len(buf) |->
                      IF i > out_at /\ i <= out_at + Len(bytes) THEN bytes[i - out_at]
                      ELSE buf[i]],
                  out_at + Len(bytes))

\* std::basic_string::resize(n): the characters up to n stay, new ones are CharT{}
string_resize(buf, n) == [i \in 1..n |-> IF i <= Len(buf) THEN buf[i] ELSE 0]

\* the output written from its beginning again after it was enlarged
nothing_used(size, output_remaining) == 0

\* const auto used_output = output.size() - output_remaining
used_output(size, output_remaining) == size - output_remaining

\* auto output = std::basic_string<CharT>(input.size(), CharT{}); an empty input
\* is returned at once; output.resize(output.capacity()), where the capacity is
\* the size or, in a library that rounds it, more
iconv_transcode(cv, in, slack) ==
    /\ ict.pc = "none"
    /\ ict' = [pc |-> IF in = <<>> THEN "returned" ELSE "loop",
               conversion |-> cv, input |-> in, slack |-> slack,
               at |-> 0, input_remaining |-> Len(in),
               output |-> string_resize(<<>>, IF in = <<>> THEN 0 ELSE Len(in) + slack),
               output_buffer |-> 0,
               output_remaining |-> IF in = <<>> THEN 0 ELSE Len(in) + slack,
               turns |-> 0, skipped |-> 0, enlarged |-> 0,
               result |-> IF in = <<>> THEN "string" ELSE "pending"]
    /\ UNCHANGED notIct
    /\ UNCHANGED oldAuxVars
    /\ UNCHANGED notAuxVars

\* one turn of while (input_remaining != 0), and the resize after the loop
iconv_transcode_loop(other_error) ==
    /\ ict.pc = "loop"
    /\ LET r == iconv(ict.conversion, ict.input, ict.at, ict.output, ict.output_buffer)
           size == Len(ict.output)
           after == [ict EXCEPT !.turns = @ + 1, !.at = r.at,
                                !.input_remaining = Len(ict.input) - r.at,
                                !.output = r.buf, !.output_buffer = r.out_at,
                                !.output_remaining = size - r.out_at]
           used == used_output(size, after.output_remaining)
           new_size == size + Min(size, string_max_size - size)
           capacity == Min(new_size + ict.slack, string_max_size)
       IN ict' =
            IF other_error
            THEN [ict EXCEPT !.pc = "returned", !.result = "system_error", !.turns = @ + 1]
            ELSE IF r.errno \in {"EILSEQ", "EINVAL"}
            THEN [after EXCEPT !.at = @ + 1, !.input_remaining = @ - 1, !.skipped = @ + 1,
                               !.pc = IF after.input_remaining = 1 THEN "returned" ELSE "loop",
                               !.result = IF after.input_remaining = 1 THEN "string" ELSE @,
                               !.output = IF after.input_remaining = 1
                                          THEN string_resize(@, size - after.output_remaining)
                                          ELSE @]
            ELSE IF r.errno = "E2BIG"
            THEN IF new_size = size
                 THEN [after EXCEPT !.pc = "returned", !.result = "bad_alloc"]
                 ELSE [after EXCEPT !.output = string_resize(@, capacity),
                                    !.output_buffer = used,
                                    !.output_remaining = capacity - used,
                                    !.enlarged = @ + 1]
            ELSE [after EXCEPT !.pc = "returned", !.result = "string",
                               !.output = string_resize(@, size - after.output_remaining)]
    /\ UNCHANGED notIct
    /\ UNCHANGED oldAuxVars
    /\ UNCHANGED notAuxVars

TranscodeInit ==
    /\ CaptureParked
    /\ module_lookup = "module_info"
    /\ DiaFresh
    /\ DwflParked
    /\ ModuleMapParked
    /\ ResolveParked
    /\ OldAuxParked
    /\ ReadFromHandleParked
    /\ lt = NotCalled /\ walk = NotCalled /\ dfs = NotCalled /\ gmfn = NotCalled
    /\ ict = NotCalled

TranscodeNext ==
    \/ /\ ict.pc = "none"
       /\ \E cv \in Conversions, in \in Inputs, slack \in 0..1 : iconv_transcode(cv, in, slack)
    \/ \E other_error \in BOOLEAN : iconv_transcode_loop(other_error)

SpecTranscode == TranscodeInit /\ [][TranscodeNext]_vars

\* the conversions of the characters of the input, in their order; a byte that
\* begins no character is left out
RECURSIVE ValidConversion(_, _, _)
ValidConversion(cv, in, p) ==
    IF p > Len(in) THEN <<>>
    ELSE LET n == CharacterAt(in, p)
         IN IF n = 0 THEN ValidConversion(cv, in, p + 1)
            ELSE Converted(cv, p, n) \o ValidConversion(cv, in, p + n)

\* C39: transcoding a byte string terminates (every turn of the loop but the
\* last skips one byte of the input or enlarges the output, and the output is
\* enlarged a bounded number of times) and the string it returns is the
\* conversion of exactly the valid sequences of the input in their order:
\* every byte that is invalid or begins an incomplete sequence is skipped by
\* itself, and what was written stays when the output is enlarged.
C39_TranscodeKeepsValidSequences ==
    ict.pc \in {"loop", "returned"} =>
        /\ ict.turns <= ict.skipped + ict.enlarged + 1
        /\ ict.skipped + ict.input_remaining <= Len(ict.input)
        /\ ict.enlarged <= string_max_size
        /\ (ict.pc = "returned" /\ ict.result = "string") =>
               ict.output = ValidConversion(ict.conversion, ict.input, 1)
        /\ ict.pc = "loop" =>
               /\ ict.input_remaining = Len(ict.input) - ict.at
               /\ SubSeq(ict.output, 1, ict.output_buffer)
                     = ValidConversion(ict.conversion, SubSeq(ict.input, 1, ict.at), 1)

\* C39: a string was returned after a byte was skipped and the output enlarged,
\* with the conversions of the characters before and after the skipped byte
C39_Witness ==
    /\ ict.pc = "returned"
    /\ ict.result = "string"
    /\ ict.skipped >= 1
    /\ ict.enlarged >= 1
    /\ Len(ict.output) >= 4
    /\ ict.input[2] = "X"

(***************************************************************************)
(* libdw: depth_first_search_for_address over the DIEs of a compilation    *)
(* unit.  DIE 1 is the compilation unit; the children of a DIE are in the  *)
(* order of their numbers.                                                 *)
(***************************************************************************)
\* the DIEs of the largest compilation unit
MaxDies == 4

\* the trees: tree[d] is the parent of DIE d, 0 for the compilation unit
DieTrees ==
    UNION {{t \in [1..n -> 0..(n - 1)] : t[1] = 0 /\ \A d \in 2..n : t[d] \in 1..(d - 1)} :
           n \in 1..MaxDies}

\* the DIEs above d, nearest first
RECURSIVE Enclosing(_, _)
Enclosing(tree, d) == IF tree[d] = 0 THEN <<>> ELSE <<tree[d]>> \o Enclosing(tree, tree[d])

\* the path from the compilation unit down to d
RECURSIVE PathTo(_, _)
PathTo(tree, d) == IF tree[d] = 0 THEN <<d>> ELSE Append(PathTo(tree, tree[d]), d)

InSeq(q, x) == \E i \in 1..Len(q) : q[i] = x

\* is_function(die) && die_has_address(die, address_in_cu), per DIE: the
\* compilation unit is no function, and the functions that have an address are
\* nested in each other
AddressMaps(tree) ==
    {m \in [1..Len(tree) -> BOOLEAN] :
        /\ ~m[1]
        /\ \A d, e \in 1..Len(tree) :
              (m[d] /\ m[e] /\ d # e) =>
                  InSeq(Enclosing(tree, d), e) \/ InSeq(Enclosing(tree, e), d)}

\* dwarf_child: the first child of the DIE, 0 if it has none
dwarf_child(tree, d) ==
    LET children == {c \in 1..Len(tree) : tree[c] = d}
    IN IF children = {} THEN 0 ELSE CHOOSE c \in children : \A o \in children : c <= o

\* dwarf_siblingof: the next child of the DIE's parent, 0 if there is none
dwarf_siblingof(tree, d) ==
    LET later == {c \in 1..Len(tree) : tree[c] = tree[d] /\ c > d /\ tree[d] # 0}
    IN IF later = {} THEN 0 ELSE CHOOSE c \in later : \A o \in later : c <= o

\* a search that never goes down to the children of a DIE
children_left_out(explored, child) == FALSE

\* if (!explored) { explored = true; if (dwarf_child(&die, &child_die) == 0) ...
goes_to_child(explored, child) == ~explored /\ child # 0

\* auto stack = dfs_die_stack{}; stack.emplace(compilation_unit, false)
depth_first_search_for_address(tree, has_address) ==
    /\ dfs.pc = "none"
    /\ dfs' = [pc |-> "loop", tree |-> tree, has_address |-> has_address,
               stack |-> <<[die |-> 1, explored |-> FALSE]>>, turns |-> 0]
    /\ UNCHANGED notDfs
    /\ UNCHANGED oldAuxVars
    /\ UNCHANGED notAuxVars

\* one turn of while (!stack.empty())
depth_first_search_loop ==
    /\ dfs.pc = "loop"
    /\ LET n == Len(dfs.stack)
           top == dfs.stack[n]
           child == dwarf_child(dfs.tree, top.die)
           sibling == dwarf_siblingof(dfs.tree, top.die)
           marked == [dfs.stack EXCEPT ![n].explored = TRUE]
           next_stack ==
               IF goes_to_child(top.explored, child)
               THEN Append(marked, [die |-> child, explored |-> FALSE])
               ELSE IF dfs.has_address[top.die] THEN marked
               ELSE IF sibling # 0
               THEN [marked EXCEPT ![n] = [die |-> sibling, explored |-> FALSE]]
               ELSE SubSeq(marked, 1, n - 1)
           found == ~goes_to_child(top.explored, child) /\ dfs.has_address[top.die]
       IN dfs' = [dfs EXCEPT !.stack = next_stack,
                             !.turns = @ + 1,
                             !.pc = IF found \/ next_stack = <<>> THEN "returned" ELSE "loop"]
    /\ UNCHANGED notDfs
    /\ UNCHANGED oldAuxVars
    /\ UNCHANGED notAuxVars

DfsInit ==
    /\ CaptureParked
    /\ module_lookup = "module_info"
    /\ DiaFresh
    /\ DwflParked
    /\ ModuleMapParked
    /\ ResolveParked
    /\ OldAuxParked
    /\ ReadFromHandleParked
    /\ lt = NotCalled /\ walk = NotCalled /\ dfs = NotCalled /\ gmfn = NotCalled
    /\ ict = NotCalled

DfsNext ==
    \/ /\ dfs.pc = "none"
       /\ \E tree \in DieTrees : \E has_address \in AddressMaps(tree) :
             depth_first_search_for_address(tree, has_address)
    \/ depth_first_search_loop

SpecDfs == DfsInit /\ [][DfsNext]_vars

\* the DIEs of the stack, bottom first
StackDies == [i \in 1..Len(dfs.stack) |-> dfs.stack[i].die]

\* the functions of the tree that have the address
FunctionsAtAddress == {d \in 1..Len(dfs.tree) : dfs.has_address[d]}

\* C40: depth_first_search_for_address terminates (it takes at most two turns
\* of its loop per DIE) and returns the empty stack, when no function DIE has
\* the address, or else the stack that holds exactly the path from the
\* compilation unit down to the deepest function DIE that has the address, so
\* that popping it gives that DIE and then the DIEs around it from the
\* innermost to the outermost.
C40_StackIsPathToDeepestFunction ==
    dfs.pc \in {"loop", "returned"} =>
        /\ dfs.turns <= 2 * Len(dfs.tree)
        /\ dfs.pc = "loop" =>
              /\ dfs.stack # <<>>
              /\ StackDies = PathTo(dfs.tree, StackDies[Len(StackDies)])
        /\ dfs.pc = "returned" =>
              IF FunctionsAtAddress = {} THEN dfs.stack = <<>>
              ELSE LET deepest == CHOOSE d \in FunctionsAtAddress :
                                     \A o \in FunctionsAtAddress :
                                        Len(PathTo(dfs.tree, o)) <= Len(PathTo(dfs.tree, d))
                   IN /\ StackDies = PathTo(dfs.tree, deepest)
                      /\ [i \in 1..(Len(StackDies) - 1) |-> StackDies[Len(StackDies) - i]]
                            = Enclosing(dfs.tree, deepest)

\* C40: the search went past a sibling that has no function for the address
\* and returned the path to an inlined instance inside the function that has it
C40_Witness ==
    /\ dfs.pc = "returned"
    /\ Len(dfs.stack) = 3
    /\ dfs.stack[3].die = 4
    /\ Cardinality(FunctionsAtAddress) = 2

====
